---- MODULE Spec2Model ----
(***************************************************************************)
(* Model of src/server.js: the Order ledger (one Mongo document per        *)
(* reference), the request handlers that read and save it, and the CAPI    *)
(* retry worker.  Every await in a handler is a point where other handlers *)
(* run, so a handler is a process: one action per database read, external  *)
(* call and save.  order.save() is Mongoose's save: it sends a $set of the *)
(* paths the handler modified on its own copy of the document, so a save   *)
(* is modelled as ApplySet of that update on the stored document, never as *)
(* a whole-document overwrite.  A process keeps, of the copy it read, the  *)
(* fields its later steps read or save.                                    *)
(*                                                                         *)
(* Dates are in minutes.  capi.lastTriedAt and telegram.lastTriedAt are    *)
(* written and never read by the program; they are left out of the record. *)
(***************************************************************************)
EXTENDS Integers, Sequences, FiniteSets, TLC

VARIABLES
    orders,     \* the Order collection: reference -> document
    now,        \* the wall clock (Date.now()), in minutes
    nextToken,  \* number of tokens uuidv4() has produced so far
    issued,     \* history: the tokens verify responses handed to clients
    ver,        \* GET /api/tx/verify requests in flight
    hook,       \* POST /webhooks/paystack requests in flight
    conf,       \* GET /api/order/confirm requests in flight
    sweep,      \* CAPI retry worker passes in flight
    sub,        \* POST /api/submit-phone requests in flight
    capiCalls,  \* history: attribution API calls received, per reference
    capiAccepted, \* history: of those, the ones the API accepted
    tgOrderMsgs,  \* history: order notifications Telegram delivered
    tgPhoneMsgs,  \* history: phone notifications Telegram delivered
    last        \* history: the step just taken (operation, reference, outcome)

vars ==
    <<orders, now, nextToken, issued, ver, hook, conf, sweep, sub,
      capiCalls, capiAccepted, tgOrderMsgs, tgPhoneMsgs, last>>

-----------------------------------------------------------------------------
(* Bounds of the model *)

MaxTokens ==
    1

PayNow ==
    2

PayTokens ==
    2

ConfirmTokens ==
    1

ConfirmCalls ==
    3

RaceTokens ==
    1

RaceCalls ==
    3

CeilingCalls ==
    6

MaxCalls ==
    1

ExpiryNow ==
    17

ExpiryTokens ==
    1

GateTokens ==
    2

GateCalls ==
    1

DeliverTokens ==
    2

NotifyTokens ==
    1

NotifyUp ==
    1

MaxInFlight ==
    2

DispatchCalls ==
    3

StoreCalls ==
    2

ReissueTokens ==
    2

ReissueNow ==
    17

OriginCalls ==
    1

LegacyTries ==
    2

MaxMsgs ==
    2

(* Program constants *)

ProductPriceKobo ==
    390000

TokenTTLMinutes ==
    15

CapiMaxTries ==
    5

SweepLimit ==
    10

MinPhoneLength ==
    5

TelegramConfigured ==
    TRUE

WebhookSecret ==
    "sk_secret"

-----------------------------------------------------------------------------
(* Input domains *)

Refs ==
    {"r1", "r2"}

NoRef ==
    "noref"

NoToken ==
    0

NoDate ==
    -1

Amounts ==
    {ProductPriceKobo, ProductPriceKobo - 1}

VerSlots ==
    {"v1"}

HookSlots ==
    {"h1"}

ConfSlots ==
    {"c1", "c2"}

SweepSlots ==
    {"s1", "s2"}

SubSlots ==
    {"p1"}

ProcessorReports ==
    {"success", "abandoned", "error"}

(* What a call of the attribution API comes back with: a 200 that counts   *)
(* the event, a 200 with events_received = 0, a 200 with a non-empty       *)
(* messages list, an HTTP error with a body, or no answer in time.         *)
CapiOutcomes ==
    {"accepted", "zero_events", "messages", "http_error", "timeout"}

-----------------------------------------------------------------------------
(* The Order document *)

NewCapi ==
    [sent |-> FALSE, tries |-> 0, response |-> "none", error |-> "none"]

NewTelegram ==
    [orderSent |-> FALSE, phoneSent |-> FALSE]

NoPhone ==
    <<>>

NoEmail ==
    "none"

NewOrder_WrongAmount(r) ==
    [reference |-> r, email |-> "a@b.c", amount |-> ProductPriceKobo - 1,
     status |-> "initialized",
     verifiedAt |-> NoDate, successToken |-> NoToken, tokenExpiresAt |-> NoDate,
     phone |-> NoPhone, capi |-> NewCapi, telegram |-> NewTelegram]

NewOrder(r) ==
    [reference |-> r, email |-> "a@b.c", amount |-> ProductPriceKobo,
     status |-> "initialized",
     verifiedAt |-> NoDate, successToken |-> NoToken, tokenExpiresAt |-> NoDate,
     phone |-> NoPhone, capi |-> NewCapi, telegram |-> NewTelegram]

NoDoc ==
    NewOrder(NoRef)

Exists(r) ==
    r \in DOMAIN orders

(* order.save(): $set of the modified paths; `upd` maps each modified     *)
(* top-level path to the value of the handler's copy.                     *)
ApplySet(cur, upd) ==
    [f \in DOMAIN cur |-> IF f \in DOMAIN upd THEN upd[f] ELSE cur[f]]

Save(r, upd) ==
    [orders EXCEPT ![r] = ApplySet(@, upd)]

Only(doc, paths) ==
    [f \in paths |-> doc[f]]

(* The history record of a step: the operation, the reference it was for, *)
(* the HTTP status it answered with (0 while the request goes on), the     *)
(* branch taken and what the request carried: for a webhook delivery its   *)
(* body and whether its signature was forged, for a confirmation call its  *)
(* token, for an initialization the state of the email and the reply of    *)
(* the processor, for an attribution call the payload sent.                *)
NoBody ==
    [event |-> "none", ref |-> NoRef, amount |-> 0]

NoPayload ==
    [event_name |-> "none", event_id |-> NoRef]

NoInput ==
    [forged |-> FALSE, body |-> NoBody, token |-> NoToken,
     email |-> "none", reply |-> "none", payload |-> NoPayload]

StepIn(op, r, code, tag, input) ==
    [op |-> op, ref |-> r, code |-> code, tag |-> tag, input |-> input]

Step(op, r, code, tag) ==
    StepIn(op, r, code, tag, NoInput)

-----------------------------------------------------------------------------
(* POST /api/identify and the page script that calls it.  A cookie value   *)
(* fb.1.<seconds>.<id> is the pair of its time and its id; Null is an      *)
(* absent (or empty) one, NoClick an absent fbclid.                        *)

Fb(t, id) ==
    [t |-> t, id |-> id]

Null ==
    Fb(NoDate, "null")

NoClick ==
    "null"

(* const _fbc = fbc || (fbclid ? `fb.1.${now}.${fbclid}` : (req.cookies._fbc || null)) *)
IdentifyFbc(body, cookies) ==
    IF body.fbc # Null THEN body.fbc
    ELSE IF body.fbclid # NoClick THEN Fb(now, body.fbclid)
    ELSE cookies.fbc

(* const _fbp = fbp || req.cookies._fbp || `fb.1.${now}.${random}` *)
IdentifyFbp(body, cookies) ==
    IF body.fbp # Null THEN body.fbp
    ELSE IF cookies.fbp # Null THEN cookies.fbp
    ELSE Fb(now, "random")

(* The request as the history records it, with the values the response     *)
(* carries and sets as cookies.                                            *)
Identified(body, cookies) ==
    [body |-> body, cookies |-> cookies,
     fbc |-> IdentifyFbc(body, cookies), fbp |-> IdentifyFbp(body, cookies),
     fbclid |-> IF body.fbclid # NoClick THEN body.fbclid ELSE cookies.fbclid]

Identify(body, cookies) ==
    /\ last' = StepIn("identify", NoRef, 200, "direct", Identified(body, cookies))
    /\ UNCHANGED <<issued, orders, now, nextToken, ver, hook, conf, sweep,
                   capiCalls, capiAccepted, tgOrderMsgs, tgPhoneMsgs, sub>>

(* bootstrapIdentity of public/js/app.js: the cookie jar after the script  *)
(* has filled in what is missing, and the body it posts.                   *)
BootstrapJar(fbclid, jar) ==
    [fbc |-> IF fbclid # NoClick /\ jar.fbc = Null THEN Fb(now, fbclid) ELSE jar.fbc,
     fbp |-> IF jar.fbp = Null THEN Fb(now, "random") ELSE jar.fbp,
     fbclid |-> IF fbclid # NoClick THEN fbclid ELSE jar.fbclid]

BootstrapBody(fbclid, jar) ==
    [fbclid |-> fbclid, fbc |-> BootstrapJar(fbclid, jar).fbc,
     fbp |-> BootstrapJar(fbclid, jar).fbp]

bootstrapIdentity(fbclid, jar) ==
    /\ last' = StepIn("identify", NoRef, 200, "page",
                      Identified(BootstrapBody(fbclid, jar), BootstrapJar(fbclid, jar)))
    /\ UNCHANGED <<issued, orders, now, nextToken, ver, hook, conf, sweep,
                   capiCalls, capiAccepted, tgOrderMsgs, tgPhoneMsgs, sub>>

-----------------------------------------------------------------------------
(* POST /api/tx/init *)

TxInit_CreatesFirst(r, email, accepted) ==
    /\ UNCHANGED <<issued, now, nextToken, ver, hook, conf, sweep,
                   capiCalls, capiAccepted, tgOrderMsgs, tgPhoneMsgs, sub>>
    /\ LET in == [NoInput EXCEPT !.email = email, !.reply = accepted] IN
       IF email # "valid"
       THEN /\ last' = StepIn("init", r, 400, "email", in)
            /\ UNCHANGED orders
       ELSE IF Exists(r)
       THEN /\ last' = StepIn("init", r, 500, "error", in)
            /\ UNCHANGED orders
       ELSE /\ orders' = (r :> NewOrder(r)) @@ orders
            /\ last' = StepIn("init", r, IF accepted = "accepted" THEN 200 ELSE 400,
                              IF accepted = "accepted" THEN "created" ELSE "processor", in)

TxInit_Overwrites(r, email, accepted) ==
    /\ UNCHANGED <<issued, now, nextToken, ver, hook, conf, sweep,
                   capiCalls, capiAccepted, tgOrderMsgs, tgPhoneMsgs, sub>>
    /\ LET in == [NoInput EXCEPT !.email = email, !.reply = accepted] IN
       IF email # "valid"
       THEN /\ last' = StepIn("init", r, 400, "email", in)
            /\ UNCHANGED orders
       ELSE IF accepted = "rejected"
       THEN /\ last' = StepIn("init", r, 400, "processor", in)
            /\ UNCHANGED orders
       ELSE IF accepted = "error"
       THEN /\ last' = StepIn("init", r, 500, "error", in)
            /\ UNCHANGED orders
       ELSE /\ orders' = (r :> NewOrder(r)) @@ orders
            /\ last' = StepIn("init", r, 200, "created", in)

(* `email` is the state of the submitted address, `accepted` the reply of  *)
(* the processor's initialize call; the order is created after both.       *)
TxInit(r, email, accepted) ==
    /\ UNCHANGED <<issued, now, nextToken, ver, hook, conf, sweep,
                   capiCalls, capiAccepted, tgOrderMsgs, tgPhoneMsgs, sub>>
    /\ LET in == [NoInput EXCEPT !.email = email, !.reply = accepted] IN
       IF email # "valid"
       THEN /\ last' = StepIn("init", r, 400, "email", in)
            /\ UNCHANGED orders
       ELSE IF accepted = "rejected"
       THEN /\ last' = StepIn("init", r, 400, "processor", in)
            /\ UNCHANGED orders
       ELSE IF accepted = "error" \/ Exists(r)
       THEN /\ last' = StepIn("init", r, 500, "error", in)
            /\ UNCHANGED orders
       ELSE /\ orders' = (r :> NewOrder(r)) @@ orders
            /\ last' = StepIn("init", r, 200, "created", in)

-----------------------------------------------------------------------------
(* GET /api/tx/verify *)

NoUpdate ==
    [f \in {} |-> 0]

IdleVer ==
    [pc |-> "idle", ref |-> NoRef, report |-> "none", amount |-> 0, upd |-> NoUpdate]

VerifyAmountMismatch_Ignored(paid, amount, doc) ==
    FALSE

VerifyAmountMismatch(paid, amount, doc) ==
    paid /\ amount # doc.amount

(* The paid branch: status, verifiedAt and a fresh token with its expiry.  *)
(* Mongoose leaves a path out of the $set when the assigned value equals   *)
(* the value the document was read with (status already 'success').        *)
VerifyPaidDoc(doc, token) ==
    [doc EXCEPT !.status = "success", !.verifiedAt = now, !.successToken = token,
                !.tokenExpiresAt = now + TokenTTLMinutes]

VerifyPaidPaths(doc) ==
    (IF doc.status # "success" THEN {"status"} ELSE {})
        \cup {"verifiedAt", "successToken", "tokenExpiresAt"}

VerifyFailedDoc(doc) ==
    [doc EXCEPT !.status = "failed"]

VerifyFailedPaths(doc) ==
    IF doc.status # "failed" THEN {"status"} ELSE {}

VerifyRead(v, r, report, amount) ==
    /\ ver[v].pc = "idle"
    /\ UNCHANGED <<issued, orders, now, hook, conf, sweep, capiCalls, capiAccepted, tgOrderMsgs, tgPhoneMsgs, sub>>
    /\ LET paid == report = "success" IN
       IF r = NoRef
       THEN /\ last' = Step("verify", r, 400, "no_reference")
            /\ UNCHANGED <<ver, nextToken>>
       ELSE IF report = "error"
       THEN /\ last' = Step("verify", r, 500, "processor_error")
            /\ UNCHANGED <<ver, nextToken>>
       ELSE IF ~Exists(r)
       THEN /\ last' = Step("verify", r, 404, "not_found")
            /\ UNCHANGED <<ver, nextToken>>
       ELSE IF VerifyAmountMismatch(paid, amount, orders[r])
       THEN /\ last' = Step("verify", r, 400, "amount_mismatch")
            /\ UNCHANGED <<ver, nextToken>>
       ELSE IF paid
       THEN /\ nextToken' = nextToken + 1
            /\ ver' = [ver EXCEPT ![v] =
                         [pc |-> "save_paid", ref |-> r, report |-> report, amount |-> amount,
                          upd |-> Only(VerifyPaidDoc(orders[r], nextToken + 1),
                                       VerifyPaidPaths(orders[r]))]]
            /\ last' = Step("verify_read", r, 0, "paid")
       ELSE /\ ver' = [ver EXCEPT ![v] =
                         [pc |-> "save_failed", ref |-> r, report |-> report, amount |-> amount,
                          upd |-> Only(VerifyFailedDoc(orders[r]),
                                       VerifyFailedPaths(orders[r]))]]
            /\ last' = Step("verify_read", r, 0, "unpaid")
            /\ UNCHANGED nextToken

VerifySave(v) ==
    /\ ver[v].pc \in {"save_paid", "save_failed"}
    /\ orders' = Save(ver[v].ref, ver[v].upd)
    /\ issued' = IF ver[v].pc = "save_paid"
                  THEN issued \cup {[token |-> ver[v].upd.successToken, ref |-> ver[v].ref,
                                     expiresAt |-> ver[v].upd.tokenExpiresAt]}
                  ELSE issued
    /\ ver' = [ver EXCEPT ![v] = IdleVer]
    /\ last' = Step("verify", ver[v].ref, 200,
                    IF ver[v].pc = "save_paid" THEN "verified" ELSE "failed")
    /\ UNCHANGED <<now, nextToken, hook, conf, sweep, capiCalls, capiAccepted, tgOrderMsgs, tgPhoneMsgs, sub>>

-----------------------------------------------------------------------------
(* POST /webhooks/paystack *)

IdleHook ==
    [pc |-> "idle", ref |-> NoRef, amount |-> 0, upd |-> NoUpdate]

(* crypto.createHmac('sha512', key).update(body).digest('hex'): a keyed    *)
(* hash, taken to be collision-free, so it is the pair it was made from.   *)
Hmac(key, body) ==
    <<key, body>>

NoSig ==
    <<"nosig", NoBody>>

SignatureValid_AnyKey(signature, rawBody) ==
    signature # NoSig /\ signature[2] = rawBody

SignatureValid(signature, rawBody) ==
    signature = Hmac(WebhookSecret, rawBody)

HookAmountMismatch_Ignored(amount, doc) ==
    FALSE

HookAmountMismatch(amount, doc) ==
    amount # doc.amount

HookShouldApply_Always(doc) ==
    TRUE

HookShouldApply(doc) ==
    doc.status # "success"

HookDoc(doc) ==
    [doc EXCEPT !.status = "success", !.verifiedAt = now]

HookPaths_StatusOnly ==
    {"status"}

HookPaths_WithToken ==
    {"status", "verifiedAt", "successToken", "tokenExpiresAt"}

(* The paths the webhook assigns before it saves.                          *)
HookPaths ==
    {"status", "verifiedAt"}

HookRecv(h, signature, body) ==
    /\ hook[h].pc = "idle"
    /\ UNCHANGED <<issued, orders, now, nextToken, ver, conf, sweep,
                   capiCalls, capiAccepted, tgOrderMsgs, tgPhoneMsgs, sub>>
    /\ LET in == [NoInput EXCEPT !.forged = signature # Hmac(WebhookSecret, body),
                                 !.body = body] IN
       IF ~SignatureValid(signature, body)
       THEN /\ last' = StepIn("webhook", body.ref, 401, "invalid_signature", in)
            /\ UNCHANGED hook
       ELSE IF body.event # "charge.success" \/ body.ref = NoRef \/ ~Exists(body.ref)
       THEN /\ last' = StepIn("webhook", body.ref, 200, "ignored", in)
            /\ UNCHANGED hook
       ELSE IF HookAmountMismatch(body.amount, orders[body.ref])
       THEN /\ last' = StepIn("webhook", body.ref, 200, "amount_mismatch", in)
            /\ UNCHANGED hook
       ELSE IF HookShouldApply(orders[body.ref])
       THEN /\ hook' = [hook EXCEPT ![h] =
                          [pc |-> "save", ref |-> body.ref, amount |-> body.amount,
                           upd |-> Only(HookDoc(orders[body.ref]), HookPaths)]]
            /\ last' = StepIn("webhook_read", body.ref, 0, "apply", in)
       ELSE /\ last' = StepIn("webhook", body.ref, 200, "already_success", in)
            /\ UNCHANGED hook

HookSave(h) ==
    /\ hook[h].pc = "save"
    /\ orders' = Save(hook[h].ref, hook[h].upd)
    /\ hook' = [hook EXCEPT ![h] = IdleHook]
    /\ last' = Step("webhook_saved", hook[h].ref, 200, "confirmed")
    /\ UNCHANGED <<issued, now, nextToken, ver, conf, sweep, capiCalls, capiAccepted, tgOrderMsgs, tgPhoneMsgs, sub>>

-----------------------------------------------------------------------------
(* The attribution (CAPI) dispatch shared by confirm and the retry worker *)

PayloadFails_Never(order) ==
    FALSE

(* buildCapiPayload throws when the order has neither an email nor a phone. *)
PayloadFails(order) ==
    order.email = NoEmail /\ order.phone = NoPhone

buildCapiPayload_FreshId(order) ==
    [event_name |-> "Purchase", event_id |-> NoRef]

(* Of the payload, the fields that identify the event.                     *)
buildCapiPayload(order) ==
    [event_name |-> "Purchase", event_id |-> order.reference]

(* The record assigned to order.capi after the call, from the copy the     *)
(* handler read: tries is that copy's tries plus one.                      *)
CapiAfter_ForgetsError(capi, outcome) ==
    [sent |-> outcome = "accepted", tries |-> capi.tries + 1,
     response |-> IF outcome \in {"accepted", "http_error"} THEN "data" ELSE "none",
     error |-> "none"]

CapiRejected_Never(outcome) ==
    FALSE

(* The check made on a 200 answer before it counts as a success.           *)
CapiRejected(outcome) ==
    outcome \in {"zero_events", "messages"}

CapiAfter(capi, outcome) ==
    IF outcome \in {"accepted", "zero_events", "messages"} /\ ~CapiRejected(outcome)
    THEN [sent |-> TRUE, tries |-> capi.tries + 1, response |-> "data", error |-> "none"]
    ELSE [sent |-> FALSE, tries |-> capi.tries + 1,
          response |-> IF outcome = "http_error" THEN "data" ELSE "none",
          error |-> IF CapiRejected(outcome) THEN "rejected" ELSE outcome]

Bump(f, r) ==
    [f EXCEPT ![r] = @ + 1]

-----------------------------------------------------------------------------
(* GET /api/order/confirm *)

(* Of its copy of the order a confirmation call keeps capi, telegram and   *)
(* whether a payload can be built from it.                                 *)
ConfView(doc) ==
    [capi |-> doc.capi, telegram |-> doc.telegram, identified |-> ~PayloadFails(doc)]

(* `tried` tells whether the call has been through its CAPI block, and so  *)
(* has saved the order once.                                               *)
IdleConf ==
    [pc |-> "idle", ref |-> NoRef, doc |-> ConfView(NoDoc), tried |-> FALSE]

(* The gate: the token checks come before the payment-state check.         *)
ConfirmTokenInvalid_UnlessUnset(doc, token) ==
    doc.successToken # NoToken /\ doc.successToken # token

ConfirmTokenInvalid_AnyIssued(doc, token) ==
    ~\E i \in issued : i.ref = doc.reference /\ i.token = token

ConfirmTokenInvalid_Never(doc, token) ==
    FALSE

ConfirmTokenInvalid(doc, token) ==
    doc.successToken # token

ConfirmTokenExpired_Never(doc) ==
    FALSE

ConfirmTokenExpired(doc) ==
    doc.tokenExpiresAt # NoDate /\ now > doc.tokenExpiresAt

ConfirmNotPaid_Never(doc) ==
    FALSE

ConfirmNotPaid(doc) ==
    doc.status # "success"

ConfirmNeedsCapi_Always(doc) ==
    TRUE

ConfirmNeedsCapi(doc) ==
    ~doc.capi.sent

ConfirmNeedsTelegram(doc) ==
    TelegramConfigured /\ ~doc.telegram.orderSent

ConfirmAfterCapi_FailsOnError(c, r, doc, tried, in) ==
    /\ conf' = [conf EXCEPT ![c] = IdleConf]
    /\ last' = StepIn("confirm", r, IF tried /\ ~doc.capi.sent THEN 502 ELSE 200, "after_capi", in)

(* Where the handler goes once the CAPI block is over. *)
ConfirmAfterCapi(c, r, doc, tried, in) ==
    IF ConfirmNeedsTelegram(doc)
    THEN /\ conf' = [conf EXCEPT ![c] = [pc |-> "tg_call", ref |-> r, doc |-> doc, tried |-> tried]]
         /\ last' = StepIn("confirm_step", r, 0, IF tried THEN "tried" ELSE "already_sent", in)
    ELSE /\ conf' = [conf EXCEPT ![c] = IdleConf]
         /\ last' = StepIn("confirm", r, 200,
                           IF ~tried THEN "already_sent"
                           ELSE IF doc.capi.sent THEN "capi_sent" ELSE "capi_unsent", in)

ConfirmRead(c, r, token) ==
    /\ conf[c].pc = "idle"
    /\ UNCHANGED <<issued, orders, now, nextToken, ver, hook, sweep,
                   capiCalls, capiAccepted, tgOrderMsgs, tgPhoneMsgs, sub>>
    /\ LET in == [NoInput EXCEPT !.token = token] IN
       IF r = NoRef \/ token = NoToken
       THEN /\ last' = StepIn("confirm", r, 400, "missing", in)
            /\ UNCHANGED conf
       ELSE IF ~Exists(r)
       THEN /\ last' = StepIn("confirm", r, 404, "not_found", in)
            /\ UNCHANGED conf
       ELSE IF ConfirmTokenInvalid(orders[r], token)
       THEN /\ last' = StepIn("confirm", r, 403, "invalid_token", in)
            /\ UNCHANGED conf
       ELSE IF ConfirmTokenExpired(orders[r])
       THEN /\ last' = StepIn("confirm", r, 403, "token_expired", in)
            /\ UNCHANGED conf
       ELSE IF ConfirmNotPaid(orders[r])
       THEN /\ last' = StepIn("confirm", r, 409, "not_paid", in)
            /\ UNCHANGED conf
       ELSE IF ConfirmNeedsCapi(orders[r])
       THEN /\ conf' = [conf EXCEPT ![c] =
                          [pc |-> "capi_call", ref |-> r, doc |-> ConfView(orders[r]),
                           tried |-> FALSE]]
            /\ last' = StepIn("confirm_read", r, 0, "to_capi", in)
       ELSE ConfirmAfterCapi(c, r, ConfView(orders[r]), FALSE, in)

(* buildCapiPayload and axios.post, both inside the try block: when the    *)
(* first throws the second is not reached and the catch block records the  *)
(* attempt.                                                                *)
ConfirmCapiCall(c, outcome) ==
    /\ conf[c].pc = "capi_call"
    /\ IF conf[c].doc.identified
       THEN /\ capiCalls' = Bump(capiCalls, conf[c].ref)
            /\ capiAccepted' = IF outcome = "accepted" THEN Bump(capiAccepted, conf[c].ref)
                               ELSE capiAccepted
            /\ conf' = [conf EXCEPT ![c].pc = "capi_save",
                                    ![c].doc.capi = CapiAfter(@, outcome)]
            /\ last' = StepIn("confirm_capi", conf[c].ref, 0, outcome,
                              [NoInput EXCEPT !.payload =
                                  buildCapiPayload([reference |-> conf[c].ref])])
       ELSE /\ conf' = [conf EXCEPT ![c].pc = "capi_save",
                                    ![c].doc.capi = CapiAfter(@, "no_identity")]
            /\ last' = Step("confirm_build", conf[c].ref, 0, "no_identity")
            /\ UNCHANGED <<capiCalls, capiAccepted>>
    /\ UNCHANGED <<issued, orders, now, nextToken, ver, hook, sweep, tgOrderMsgs, tgPhoneMsgs, sub>>

ConfirmCapiSave(c) ==
    /\ conf[c].pc = "capi_save"
    /\ orders' = Save(conf[c].ref, Only(conf[c].doc, {"capi"}))
    /\ ConfirmAfterCapi(c, conf[c].ref, conf[c].doc, TRUE, NoInput)
    /\ UNCHANGED <<issued, now, nextToken, ver, hook, sweep, capiCalls, capiAccepted, tgOrderMsgs, tgPhoneMsgs, sub>>

ConfirmTgCall(c, delivered) ==
    /\ conf[c].pc = "tg_call"
    /\ tgOrderMsgs' = IF delivered /\ tgOrderMsgs[conf[c].ref] < MaxMsgs
                      THEN Bump(tgOrderMsgs, conf[c].ref) ELSE tgOrderMsgs
    /\ conf' = [conf EXCEPT ![c].pc = "tg_save",
                            ![c].doc.telegram.orderSent = delivered]
    /\ last' = Step("confirm_tg", conf[c].ref, 0, IF delivered THEN "delivered" ELSE "failed")
    /\ UNCHANGED <<issued, orders, now, nextToken, ver, hook, sweep, capiCalls, capiAccepted, tgPhoneMsgs, sub>>

ConfirmTgSave(c) ==
    /\ conf[c].pc = "tg_save"
    /\ orders' = Save(conf[c].ref, Only(conf[c].doc, {"telegram"}))
    /\ conf' = [conf EXCEPT ![c] = IdleConf]
    /\ last' = Step("confirm", conf[c].ref, 200,
                    IF conf[c].doc.capi.sent THEN "capi_sent" ELSE "capi_unsent")
    /\ UNCHANGED <<issued, now, nextToken, ver, hook, sweep, capiCalls, capiAccepted, tgOrderMsgs, tgPhoneMsgs, sub>>

-----------------------------------------------------------------------------
(* POST /api/submit-phone.  A phone number is the sequence of its          *)
(* characters; " " stands for any white space.                             *)

RECURSIVE TrimStart(_)
TrimStart(str) ==
    IF str # <<>> /\ Head(str) = " " THEN TrimStart(Tail(str)) ELSE str

RECURSIVE TrimEnd(_)
TrimEnd(str) ==
    IF str # <<>> /\ str[Len(str)] = " " THEN TrimEnd(SubSeq(str, 1, Len(str) - 1)) ELSE str

Trim(str) ==
    TrimEnd(TrimStart(str))

SubView(doc) ==
    Only(doc, {"phone", "telegram"})

IdleSub ==
    [pc |-> "idle", ref |-> NoRef, doc |-> SubView(NoDoc), paths |-> {}]

SubNeedsTelegram(doc) ==
    TelegramConfigured /\ ~doc.telegram.phoneSent

SubAfterPhone(p, r, doc) ==
    IF SubNeedsTelegram(doc)
    THEN /\ sub' = [sub EXCEPT ![p] = [pc |-> "tg_call", ref |-> r, doc |-> doc, paths |-> {}]]
         /\ last' = Step("phone_step", r, 0, "to_telegram")
    ELSE /\ sub' = [sub EXCEPT ![p] = IdleSub]
         /\ last' = Step("phone", r, 200, "received")

SubmitPhone_AnyStatus(p, r, phone) ==
    /\ sub[p].pc = "idle"
    /\ UNCHANGED <<issued, orders, now, nextToken, ver, hook, conf, sweep,
                   capiCalls, capiAccepted, tgOrderMsgs, tgPhoneMsgs>>
    /\ IF r = NoRef \/ phone = <<>>
       THEN /\ last' = Step("phone", r, 400, "missing")
            /\ UNCHANGED sub
       ELSE IF Len(Trim(phone)) < MinPhoneLength
       THEN /\ last' = Step("phone", r, 400, "too_short")
            /\ UNCHANGED sub
       ELSE IF ~Exists(r)
       THEN /\ last' = Step("phone", r, 404, "not_found")
            /\ UNCHANGED sub
       ELSE /\ sub' = [sub EXCEPT ![p] =
                         [pc |-> "save_phone", ref |-> r,
                          doc |-> [SubView(orders[r]) EXCEPT !.phone = Trim(phone)],
                          paths |-> IF orders[r].phone # Trim(phone) THEN {"phone"} ELSE {}]]
            /\ last' = Step("phone_read", r, 0, "to_save")

SubmitPhone(p, r, phone) ==
    /\ sub[p].pc = "idle"
    /\ UNCHANGED <<issued, orders, now, nextToken, ver, hook, conf, sweep,
                   capiCalls, capiAccepted, tgOrderMsgs, tgPhoneMsgs>>
    /\ IF r = NoRef \/ phone = <<>>
       THEN /\ last' = Step("phone", r, 400, "missing")
            /\ UNCHANGED sub
       ELSE IF Len(Trim(phone)) < MinPhoneLength
       THEN /\ last' = Step("phone", r, 400, "too_short")
            /\ UNCHANGED sub
       ELSE IF ~Exists(r)
       THEN /\ last' = Step("phone", r, 404, "not_found")
            /\ UNCHANGED sub
       ELSE IF orders[r].status # "success"
       THEN /\ last' = Step("phone", r, 400, "not_completed")
            /\ UNCHANGED sub
       ELSE /\ sub' = [sub EXCEPT ![p] =
                         [pc |-> "save_phone", ref |-> r,
                          doc |-> [SubView(orders[r]) EXCEPT !.phone = Trim(phone)],
                          paths |-> IF orders[r].phone # Trim(phone) THEN {"phone"} ELSE {}]]
            /\ last' = Step("phone_read", r, 0, "to_save")

(* The first save: the phone path, unless the number is the one the order  *)
(* was read with (no modified path, nothing is sent to the store).         *)
SubSavePhone(p) ==
    /\ sub[p].pc = "save_phone"
    /\ orders' = Save(sub[p].ref, Only(sub[p].doc, sub[p].paths))
    /\ SubAfterPhone(p, sub[p].ref, sub[p].doc)
    /\ UNCHANGED <<issued, now, nextToken, ver, hook, conf, sweep,
                   capiCalls, capiAccepted, tgOrderMsgs, tgPhoneMsgs>>

SubTgCall(p, delivered) ==
    /\ sub[p].pc = "tg_call"
    /\ tgPhoneMsgs' = IF delivered /\ tgPhoneMsgs[sub[p].ref] < MaxMsgs
                      THEN Bump(tgPhoneMsgs, sub[p].ref) ELSE tgPhoneMsgs
    /\ sub' = [sub EXCEPT ![p].pc = "tg_save",
                          ![p].doc.telegram.phoneSent = delivered]
    /\ last' = Step("phone_tg", sub[p].ref, 0, IF delivered THEN "delivered" ELSE "failed")
    /\ UNCHANGED <<issued, orders, now, nextToken, ver, hook, conf, sweep,
                   capiCalls, capiAccepted, tgOrderMsgs>>

SubTgSave(p) ==
    /\ sub[p].pc = "tg_save"
    /\ orders' = Save(sub[p].ref, Only(sub[p].doc, {"telegram"}))
    /\ sub' = [sub EXCEPT ![p] = IdleSub]
    /\ last' = Step("phone", sub[p].ref, 200, "received")
    /\ UNCHANGED <<issued, now, nextToken, ver, hook, conf, sweep,
                   capiCalls, capiAccepted, tgOrderMsgs, tgPhoneMsgs>>

-----------------------------------------------------------------------------
(* CAPI retry worker (setInterval, every minute; a pass does not wait for   *)
(* the pass before it)                                                      *)

SweepView(doc) ==
    [reference |-> doc.reference, capi |-> doc.capi, identified |-> ~PayloadFails(doc)]

IdleSweep ==
    [pc |-> "idle", unsent |-> <<>>]

SweepMatches_AnyStatus(doc) ==
    doc.capi.sent # TRUE /\ doc.capi.tries < CapiMaxTries

SweepMatches_IgnoresCeiling(doc) ==
    doc.status = "success" /\ doc.capi.sent # TRUE

SweepMatches(doc) ==
    /\ doc.status = "success"
    /\ doc.capi.sent # TRUE
    /\ doc.capi.tries < CapiMaxTries

Min(a, b) ==
    IF a <= b THEN a ELSE b

(* find(...).limit(10) without a sort: any SweepLimit of the matching      *)
(* documents, in any order.                                                *)
FindResults(matching) ==
    LET n == Min(Cardinality(matching), SweepLimit) IN
    {q \in [1..n -> matching] : \A i, j \in 1..n : i # j => q[i] # q[j]}

SweepFind(s) ==
    /\ sweep[s].pc = "idle"
    /\ \E q \in FindResults({r \in DOMAIN orders : SweepMatches(orders[r])}) :
         IF Len(q) = 0
         THEN /\ last' = Step("sweep", NoRef, 0, "empty")
              /\ UNCHANGED sweep
         ELSE /\ sweep' = [sweep EXCEPT ![s] =
                             [pc |-> "call",
                              unsent |-> [i \in 1..Len(q) |-> SweepView(orders[q[i]])]]]
              /\ last' = Step("sweep_find", q[1], 0, "found")
    /\ UNCHANGED <<issued, orders, now, nextToken, ver, hook, conf,
                   capiCalls, capiAccepted, tgOrderMsgs, tgPhoneMsgs, sub>>

SweepCall(s, outcome) ==
    /\ sweep[s].pc = "call"
    /\ LET doc == Head(sweep[s].unsent) IN
       IF doc.identified
       THEN /\ capiCalls' = Bump(capiCalls, doc.reference)
            /\ capiAccepted' = IF outcome = "accepted" THEN Bump(capiAccepted, doc.reference)
                               ELSE capiAccepted
            /\ sweep' = [sweep EXCEPT ![s].pc = "save",
                                      ![s].unsent[1].capi = CapiAfter(@, outcome)]
            /\ last' = StepIn("sweep_capi", doc.reference, 0, outcome,
                              [NoInput EXCEPT !.payload = buildCapiPayload(doc)])
       ELSE /\ sweep' = [sweep EXCEPT ![s].pc = "save",
                                      ![s].unsent[1].capi = CapiAfter(@, "no_identity")]
            /\ last' = Step("sweep_build", doc.reference, 0, "no_identity")
            /\ UNCHANGED <<capiCalls, capiAccepted>>
    /\ UNCHANGED <<issued, orders, now, nextToken, ver, hook, conf, tgOrderMsgs, tgPhoneMsgs, sub>>

SweepSave_AlsoNotifies(s) ==
    /\ sweep[s].pc = "save"
    /\ LET doc == Head(sweep[s].unsent) IN
       /\ orders' = [orders EXCEPT ![doc.reference].capi = doc.capi,
                                   ![doc.reference].telegram.orderSent = TRUE]
       /\ tgOrderMsgs' = Bump(tgOrderMsgs, doc.reference)
       /\ sweep' = [sweep EXCEPT ![s] =
                      IF Len(sweep[s].unsent) > 1
                      THEN [pc |-> "call", unsent |-> Tail(sweep[s].unsent)]
                      ELSE IdleSweep]
       /\ last' = Step("sweep_save", doc.reference, 0,
                       IF doc.capi.sent THEN "capi_sent" ELSE "capi_unsent")
    /\ UNCHANGED <<issued, now, nextToken, ver, hook, conf, capiCalls, capiAccepted, tgPhoneMsgs, sub>>

SweepSave(s) ==
    /\ sweep[s].pc = "save"
    /\ LET doc == Head(sweep[s].unsent) IN
       /\ orders' = Save(doc.reference, Only(doc, {"capi"}))
       /\ sweep' = [sweep EXCEPT ![s] =
                      IF Len(sweep[s].unsent) > 1
                      THEN [pc |-> "call", unsent |-> Tail(sweep[s].unsent)]
                      ELSE IdleSweep]
       /\ last' = Step("sweep_save", doc.reference, 0,
                       IF doc.capi.sent THEN "capi_sent" ELSE "capi_unsent")
    /\ UNCHANGED <<issued, now, nextToken, ver, hook, conf, capiCalls, capiAccepted, tgOrderMsgs, tgPhoneMsgs, sub>>

-----------------------------------------------------------------------------
(* Failures of the store: Order.findOne or order.save() throws.  verify    *)
(* awaits both inside its try block and answers 500 from the catch.  The   *)
(* confirm and webhook handlers have no try block around them: the promise *)
(* of the async handler is rejected, which the router either passes to the *)
(* default error handler (a 500: `answered`) or never hears of, and then   *)
(* the request gets no response (code 0).                                  *)

Unhandled(op, r, answered, in) ==
    StepIn(op, r, IF answered THEN 500 ELSE 0, "store_error", in)

VerifyReadFails(v, r, report) ==
    /\ ver[v].pc = "idle"
    /\ r # NoRef
    /\ report # "error"
    /\ last' = Step("verify", r, 500, "store_error")
    /\ UNCHANGED <<issued, orders, now, nextToken, ver, hook, conf, sweep,
                   capiCalls, capiAccepted, tgOrderMsgs, tgPhoneMsgs, sub>>

VerifySaveFails(v) ==
    /\ ver[v].pc \in {"save_paid", "save_failed"}
    /\ ver' = [ver EXCEPT ![v] = IdleVer]
    /\ last' = Step("verify", ver[v].ref, 500, "store_error")
    /\ UNCHANGED <<issued, orders, now, nextToken, hook, conf, sweep,
                   capiCalls, capiAccepted, tgOrderMsgs, tgPhoneMsgs, sub>>

HookRecvFails(h, signature, body, answered) ==
    /\ hook[h].pc = "idle"
    /\ SignatureValid(signature, body)
    /\ body.event = "charge.success"
    /\ body.ref # NoRef
    /\ last' = Unhandled("webhook", body.ref, answered,
                         [NoInput EXCEPT !.forged = signature # Hmac(WebhookSecret, body),
                                         !.body = body])
    /\ UNCHANGED <<issued, orders, now, nextToken, ver, hook, conf, sweep,
                   capiCalls, capiAccepted, tgOrderMsgs, tgPhoneMsgs, sub>>

HookSaveFails(h, answered) ==
    /\ hook[h].pc = "save"
    /\ hook' = [hook EXCEPT ![h] = IdleHook]
    /\ last' = Unhandled("webhook", hook[h].ref, answered, NoInput)
    /\ UNCHANGED <<issued, orders, now, nextToken, ver, conf, sweep,
                   capiCalls, capiAccepted, tgOrderMsgs, tgPhoneMsgs, sub>>

ConfirmReadFails(c, r, token, answered) ==
    /\ conf[c].pc = "idle"
    /\ r # NoRef
    /\ token # NoToken
    /\ last' = Unhandled("confirm", r, answered, [NoInput EXCEPT !.token = token])
    /\ UNCHANGED <<issued, orders, now, nextToken, ver, hook, conf, sweep,
                   capiCalls, capiAccepted, tgOrderMsgs, tgPhoneMsgs, sub>>

(* The save of an accepted attempt is inside the try block: when it throws *)
(* the catch block assigns order.capi again, as a failed attempt counted   *)
(* on top of the record just assigned, and saves once more.  That second   *)
(* save, like the save of any failed attempt, is outside every try block.  *)
ConfirmCapiSaveFails(c, answered) ==
    /\ conf[c].pc = "capi_save"
    /\ IF conf[c].doc.capi.sent
       THEN /\ conf' = [conf EXCEPT ![c].doc.capi =
                          [sent |-> FALSE, tries |-> @.tries + 1, response |-> "none",
                           error |-> "store"]]
            /\ last' = Step("confirm_step", conf[c].ref, 0, "save_failed")
       ELSE /\ conf' = [conf EXCEPT ![c] = IdleConf]
            /\ last' = Unhandled("confirm", conf[c].ref, answered, NoInput)
    /\ UNCHANGED <<issued, orders, now, nextToken, ver, hook, sweep,
                   capiCalls, capiAccepted, tgOrderMsgs, tgPhoneMsgs, sub>>

ConfirmTgSaveFails(c, answered) ==
    /\ conf[c].pc = "tg_save"
    /\ conf' = [conf EXCEPT ![c] = IdleConf]
    /\ last' = Unhandled("confirm", conf[c].ref, answered, NoInput)
    /\ UNCHANGED <<issued, orders, now, nextToken, ver, hook, sweep,
                   capiCalls, capiAccepted, tgOrderMsgs, tgPhoneMsgs, sub>>

(* In the worker a save that throws inside the catch block of an order     *)
(* leaves the for loop for the outer catch, which logs: the pass is over.  *)
SweepSaveFails(s) ==
    /\ sweep[s].pc = "save"
    /\ ~Head(sweep[s].unsent).capi.sent
    /\ sweep' = [sweep EXCEPT ![s] = IdleSweep]
    /\ last' = Step("sweep", Head(sweep[s].unsent).reference, 0, "store_error")
    /\ UNCHANGED <<issued, orders, now, nextToken, ver, hook, conf,
                   capiCalls, capiAccepted, tgOrderMsgs, tgPhoneMsgs, sub>>

-----------------------------------------------------------------------------
(* The clock *)

Tick ==
    /\ now' = now + 1
    /\ last' = Step("tick", NoRef, 0, "-")
    /\ UNCHANGED <<issued, orders, nextToken, ver, hook, conf, sweep,
                   capiCalls, capiAccepted, tgOrderMsgs, tgPhoneMsgs, sub>>

-----------------------------------------------------------------------------
Init ==
    /\ orders = [r \in {} |-> NoDoc]
    /\ now = 0
    /\ nextToken = 0
    /\ issued = {}
    /\ ver = [v \in VerSlots |-> IdleVer]
    /\ hook = [h \in HookSlots |-> IdleHook]
    /\ conf = [c \in ConfSlots |-> IdleConf]
    /\ sweep = [s \in SweepSlots |-> IdleSweep]
    /\ sub = [p \in SubSlots |-> IdleSub]
    /\ capiCalls = [r \in Refs |-> 0]
    /\ capiAccepted = [r \in Refs |-> 0]
    /\ tgOrderMsgs = [r \in Refs |-> 0]
    /\ tgPhoneMsgs = [r \in Refs |-> 0]
    /\ last = Step("start", NoRef, 0, "-")

-----------------------------------------------------------------------------
(* Inputs and bounds of the specifications *)

HookBodies(refs) ==
    [event : {"charge.success"}, ref : refs, amount : Amounts]
        \cup [event : {"charge.failed"}, ref : refs, amount : {ProductPriceKobo}]

(* The header a sender can put on `body`: the right one, one made with     *)
(* another key, the right one of another body, or none.                    *)
Signatures(body, refs) ==
    {Hmac(WebhookSecret, body), Hmac("sk_other", body), NoSig}
        \cup {Hmac(WebhookSecret, b) : b \in HookBodies(refs)}

PhoneInputs ==
    {<<>>, <<" ", "0", "8", "0", " ">>, <<" ", "0", "8", "0", "3", "1", " ">>}

RaceOutcomes ==
    {"accepted", "timeout"}

EmailInputs ==
    {"missing", "malformed", "valid"}

InitReplies ==
    {"accepted", "rejected", "error"}

CallsLeft(r, max) ==
    capiCalls[r] < max

TokensLeft(report, max) ==
    report = "success" => nextToken < max

InFlight ==
    Cardinality({v \in VerSlots : ver[v].pc # "idle"})
        + Cardinality({h \in HookSlots : hook[h].pc # "idle"})
        + Cardinality({c \in ConfSlots : conf[c].pc # "idle"})
        + Cardinality({s \in SweepSlots : sweep[s].pc # "idle"})
        + Cardinality({p \in SubSlots : sub[p].pc # "idle"})

(* Every operation on one reference, with well-formed input; a request or  *)
(* worker pass starts while fewer than MaxInFlight others are under way.   *)
Next ==
    \/ TxInit("r1", "valid", "accepted")
    \/ \E p \in {"success", "abandoned"}, a \in Amounts :
          /\ InFlight < MaxInFlight
          /\ TokensLeft(p, MaxTokens)
          /\ VerifyRead("v1", "r1", p, a)
    \/ VerifySave("v1")
    \/ \E b \in HookBodies({"r1"}) :
          InFlight < MaxInFlight /\ HookRecv("h1", Hmac(WebhookSecret, b), b)
    \/ HookSave("h1")
    \/ \E t \in 1..MaxTokens : InFlight < MaxInFlight /\ ConfirmRead("c1", "r1", t)
    \/ \E o \in RaceOutcomes : CallsLeft("r1", MaxCalls) /\ ConfirmCapiCall("c1", o)
    \/ ConfirmCapiSave("c1")
    \/ \E d \in BOOLEAN : ConfirmTgCall("c1", d)
    \/ ConfirmTgSave("c1")
    \/ InFlight < MaxInFlight /\ SweepFind("s1")
    \/ \E o \in RaceOutcomes : CallsLeft("r1", MaxCalls) /\ SweepCall("s1", o)
    \/ SweepSave("s1")
    \/ \E ph \in PhoneInputs : InFlight < MaxInFlight /\ SubmitPhone("p1", "r1", ph)
    \/ SubSavePhone("p1")
    \/ \E d \in BOOLEAN : SubTgCall("p1", d)
    \/ SubTgSave("p1")

Spec ==
    Init /\ [][Next]_vars

(* The payment flow alone: initialize, verify, webhook and the clock.      *)
NextPay ==
    \/ \E e \in EmailInputs, a \in InitReplies : TxInit("r1", e, a)
    \/ \E r \in {"r1", NoRef}, p \in ProcessorReports, a \in Amounts :
          TokensLeft(p, PayTokens) /\ VerifyRead("v1", r, p, a)
    \/ VerifySave("v1")
    \/ \E b \in HookBodies({"r1"}) : \E sg \in Signatures(b, {"r1"}) : HookRecv("h1", sg, b)
    \/ HookSave("h1")
    \/ now < PayNow /\ Tick

SpecPay ==
    Init /\ [][NextPay]_vars

(* One client calling the confirmation endpoint, one call after the other, *)
(* for an order the processor reports paid; no retry worker.               *)
NextConfirm ==
    \/ TxInit("r1", "valid", "accepted")
    \/ TokensLeft("success", ConfirmTokens) /\ VerifyRead("v1", "r1", "success", ProductPriceKobo)
    \/ VerifySave("v1")
    \/ \E t \in 1..ConfirmTokens : ConfirmRead("c1", "r1", t)
    \/ \E o \in CapiOutcomes : CallsLeft("r1", ConfirmCalls) /\ ConfirmCapiCall("c1", o)
    \/ ConfirmCapiSave("c1")
    \/ \E d \in BOOLEAN : ConfirmTgCall("c1", d)
    \/ ConfirmTgSave("c1")

SpecConfirm ==
    Init /\ [][NextConfirm]_vars

(* Dispatch attempts racing on one paid order: two confirmation calls and  *)
(* one retry-worker pass in flight at a time.                              *)

NextRace ==
    \/ TxInit("r1", "valid", "accepted")
    \/ TokensLeft("success", RaceTokens) /\ VerifyRead("v1", "r1", "success", ProductPriceKobo)
    \/ VerifySave("v1")
    \/ \E c \in ConfSlots : ConfirmRead(c, "r1", RaceTokens)
    \/ \E c \in ConfSlots, o \in RaceOutcomes :
          CallsLeft("r1", RaceCalls) /\ ConfirmCapiCall(c, o)
    \/ \E c \in ConfSlots : ConfirmCapiSave(c)
    \/ \E c \in ConfSlots, d \in BOOLEAN : ConfirmTgCall(c, d)
    \/ \E c \in ConfSlots : ConfirmTgSave(c)
    \/ SweepFind("s1")
    \/ \E o \in RaceOutcomes : CallsLeft("r1", RaceCalls) /\ SweepCall("s1", o)
    \/ SweepSave("s1")

SpecRace ==
    Init /\ [][NextRace]_vars

(* The retry worker alone on an order the webhook confirmed: a pass every  *)
(* minute, whether or not the pass before it has finished.                 *)
NextCeiling ==
    \/ TxInit("r1", "valid", "accepted")
    \/ \E b \in [event : {"charge.success"}, ref : {"r1"}, amount : {ProductPriceKobo}] :
          HookRecv("h1", Hmac(WebhookSecret, b), b)
    \/ HookSave("h1")
    \/ \E s \in SweepSlots : SweepFind(s)
    \/ \E s \in SweepSlots, o \in RaceOutcomes :
          CallsLeft("r1", CeilingCalls) /\ SweepCall(s, o)
    \/ \E s \in SweepSlots : SweepSave(s)

SpecCeiling ==
    Init /\ [][NextCeiling]_vars

(* The life of a token: verify mints it, the clock runs past its expiry,   *)
(* and one client presents tokens to the confirmation endpoint.  The clock *)
(* is followed from the first mint on, and both dispatch APIs answer well. *)
NextExpiry ==
    \/ TxInit("r1", "valid", "accepted")
    \/ \E p \in {"success", "abandoned"} :
          TokensLeft(p, ExpiryTokens) /\ VerifyRead("v1", "r1", p, ProductPriceKobo)
    \/ VerifySave("v1")
    \/ \E t \in 1..ExpiryTokens : ConfirmRead("c1", "r1", t)
    \/ ConfirmCapiCall("c1", "accepted")
    \/ ConfirmCapiSave("c1")
    \/ ConfirmTgCall("c1", TRUE)
    \/ ConfirmTgSave("c1")
    \/ issued # {} /\ now < ExpiryNow /\ Tick

SpecExpiry ==
    Init /\ [][NextExpiry]_vars

(* Two paid orders, each with its own token, and one client presenting any *)
(* token with any reference.                                               *)
NextGate ==
    \/ \E r \in Refs : TxInit(r, "valid", "accepted")
    \/ \E r \in Refs :
          TokensLeft("success", GateTokens) /\ VerifyRead("v1", r, "success", ProductPriceKobo)
    \/ VerifySave("v1")
    \/ \E r \in Refs, t \in 1..GateTokens : ConfirmRead("c1", r, t)
    \/ \E o \in RaceOutcomes :
          /\ conf["c1"].pc = "capi_call"
          /\ CallsLeft(conf["c1"].ref, GateCalls)
          /\ ConfirmCapiCall("c1", o)
    \/ ConfirmCapiSave("c1")
    \/ \E d \in BOOLEAN : ConfirmTgCall("c1", d)
    \/ ConfirmTgSave("c1")

SpecGate ==
    Init /\ [][NextGate]_vars

(* Delivery by the retry worker: orders are verified by the callback page  *)
(* and the worker, one pass after the other, dispatches what it finds.     *)
(* setInterval starts a pass every minute and every await of a pass ends   *)
(* (the API calls have timeouts), so the worker's steps are weakly fair;   *)
(* so is the save of a verify request.  Nothing obliges clients to call.   *)
NextDeliver ==
    \/ TxInit("r1", "valid", "accepted")
    \/ \E p \in {"success", "abandoned"} :
          TokensLeft(p, DeliverTokens) /\ VerifyRead("v1", "r1", p, ProductPriceKobo)
    \/ VerifySave("v1")
    \/ SweepFind("s1")
    \/ \E o \in CapiOutcomes : SweepCall("s1", o)
    \/ SweepSave("s1")

SpecDeliver ==
    /\ Init /\ [][NextDeliver]_vars
    /\ WF_vars(VerifySave("v1"))
    /\ WF_vars(SweepFind("s1"))
    /\ WF_vars(\E o \in CapiOutcomes : SweepCall("s1", o))
    /\ WF_vars(SweepSave("s1"))

(* Notification of a paid order.  The order becomes success by verify or   *)
(* by webhook; the client may call the confirmation endpoint; the retry    *)
(* worker runs.  The attribution API accepts every event, and the          *)
(* notification API may fail before minute NotifyUp and delivers every     *)
(* message from then on.  Every step of a request the server has received  *)
(* and every step of the worker is weakly fair, and so is the clock;       *)
(* nothing obliges a client to send a request.                             *)
NextNotify ==
    \/ TxInit("r1", "valid", "accepted")
    \/ \E b \in [event : {"charge.success"}, ref : {"r1"}, amount : {ProductPriceKobo}] :
          HookRecv("h1", Hmac(WebhookSecret, b), b)
    \/ HookSave("h1")
    \/ TokensLeft("success", NotifyTokens) /\ VerifyRead("v1", "r1", "success", ProductPriceKobo)
    \/ VerifySave("v1")
    \/ \E t \in 1..NotifyTokens : ConfirmRead("c1", "r1", t)
    \/ ConfirmCapiCall("c1", "accepted")
    \/ ConfirmCapiSave("c1")
    \/ \E d \in (IF now < NotifyUp THEN BOOLEAN ELSE {TRUE}) : ConfirmTgCall("c1", d)
    \/ ConfirmTgSave("c1")
    \/ SweepFind("s1")
    \/ SweepCall("s1", "accepted")
    \/ SweepSave("s1")
    \/ now < NotifyUp /\ Tick

SpecNotify ==
    /\ Init /\ [][NextNotify]_vars
    /\ WF_vars(HookSave("h1"))
    /\ WF_vars(VerifySave("v1"))
    /\ WF_vars(ConfirmCapiCall("c1", "accepted"))
    /\ WF_vars(ConfirmCapiSave("c1"))
    /\ WF_vars(\E d \in (IF now < NotifyUp THEN BOOLEAN ELSE {TRUE}) : ConfirmTgCall("c1", d))
    /\ WF_vars(ConfirmTgSave("c1"))
    /\ WF_vars(SweepFind("s1"))
    /\ WF_vars(SweepCall("s1", "accepted"))
    /\ WF_vars(SweepSave("s1"))
    /\ WF_vars(now < NotifyUp /\ Tick)

(* The retry worker on two orders the webhook confirms, one pass at a      *)
(* time: what a pass selects and what it does with each selected order.    *)
NextSweep ==
    \/ \E r \in Refs : TxInit(r, "valid", "accepted")
    \/ \E b \in [event : {"charge.success"}, ref : Refs, amount : {ProductPriceKobo}] :
          HookRecv("h1", Hmac(WebhookSecret, b), b)
    \/ HookSave("h1")
    \/ SweepFind("s1")
    \/ \E o \in RaceOutcomes :
          /\ sweep["s1"].pc = "call"
          /\ CallsLeft(Head(sweep["s1"].unsent).reference, CeilingCalls)
          /\ SweepCall("s1", o)
    \/ SweepSave("s1")

SpecSweep ==
    Init /\ [][NextSweep]_vars

(* The attribution dispatch of one paid order under every answer of the    *)
(* API: one client's confirmation calls and the retry worker's passes.     *)
NextDispatch ==
    \/ TxInit("r1", "valid", "accepted")
    \/ TokensLeft("success", ConfirmTokens) /\ VerifyRead("v1", "r1", "success", ProductPriceKobo)
    \/ VerifySave("v1")
    \/ ConfirmRead("c1", "r1", ConfirmTokens)
    \/ \E o \in CapiOutcomes : CallsLeft("r1", DispatchCalls) /\ ConfirmCapiCall("c1", o)
    \/ ConfirmCapiSave("c1")
    \/ ConfirmTgCall("c1", TRUE)
    \/ ConfirmTgSave("c1")
    \/ SweepFind("s1")
    \/ \E o \in CapiOutcomes : CallsLeft("r1", DispatchCalls) /\ SweepCall("s1", o)
    \/ SweepSave("s1")

SpecDispatch ==
    Init /\ [][NextDispatch]_vars

(* One order, one verify, one webhook and one confirmation call at a time, *)
(* with a store that may throw on any read or save.                        *)
NextStore ==
    \/ TxInit("r1", "valid", "accepted")
    \/ TokensLeft("success", ConfirmTokens) /\ VerifyRead("v1", "r1", "success", ProductPriceKobo)
    \/ VerifySave("v1")
    \/ VerifyReadFails("v1", "r1", "success")
    \/ VerifySaveFails("v1")
    \/ \E b \in [event : {"charge.success"}, ref : {"r1"}, amount : {ProductPriceKobo}] :
          \/ HookRecv("h1", Hmac(WebhookSecret, b), b)
          \/ \E a \in BOOLEAN : HookRecvFails("h1", Hmac(WebhookSecret, b), b, a)
    \/ HookSave("h1")
    \/ \E a \in BOOLEAN : HookSaveFails("h1", a)
    \/ ConfirmRead("c1", "r1", ConfirmTokens)
    \/ \E a \in BOOLEAN : ConfirmReadFails("c1", "r1", ConfirmTokens, a)
    \/ \E o \in RaceOutcomes : CallsLeft("r1", StoreCalls) /\ ConfirmCapiCall("c1", o)
    \/ ConfirmCapiSave("c1")
    \/ \E a \in BOOLEAN : ConfirmCapiSaveFails("c1", a)
    \/ \E d \in BOOLEAN : ConfirmTgCall("c1", d)
    \/ ConfirmTgSave("c1")
    \/ \E a \in BOOLEAN : ConfirmTgSaveFails("c1", a)

SpecStore ==
    Init /\ [][NextStore]_vars

(* A collection that holds an order without an email, which no version of  *)
(* /api/tx/init creates: the document was put in the store by other means. *)
(* It is paid, confirmed and swept like any other, and /api/submit-phone   *)
(* may give it a phone.  The store may refuse to save it.                  *)
InitLegacy ==
    /\ orders = ("r1" :> [NewOrder("r1") EXCEPT !.email = NoEmail])
    /\ now = 0
    /\ nextToken = 0
    /\ issued = {}
    /\ ver = [v \in VerSlots |-> IdleVer]
    /\ hook = [h \in HookSlots |-> IdleHook]
    /\ conf = [c \in ConfSlots |-> IdleConf]
    /\ sweep = [s \in SweepSlots |-> IdleSweep]
    /\ sub = [p \in SubSlots |-> IdleSub]
    /\ capiCalls = [r \in Refs |-> 0]
    /\ capiAccepted = [r \in Refs |-> 0]
    /\ tgOrderMsgs = [r \in Refs |-> 0]
    /\ tgPhoneMsgs = [r \in Refs |-> 0]
    /\ last = Step("start", NoRef, 0, "-")

NextLegacy ==
    \/ TokensLeft("success", ConfirmTokens) /\ VerifyRead("v1", "r1", "success", ProductPriceKobo)
    \/ VerifySave("v1")
    \/ orders["r1"].capi.tries < LegacyTries /\ ConfirmRead("c1", "r1", ConfirmTokens)
    \/ \E o \in RaceOutcomes : CallsLeft("r1", LegacyTries) /\ ConfirmCapiCall("c1", o)
    \/ ConfirmCapiSave("c1")
    \/ ConfirmCapiSaveFails("c1", FALSE)
    \/ ConfirmTgCall("c1", TRUE)
    \/ ConfirmTgSave("c1")
    \/ orders["r1"].capi.tries < LegacyTries /\ SweepFind("s1")
    \/ \E o \in RaceOutcomes : CallsLeft("r1", LegacyTries) /\ SweepCall("s1", o)
    \/ SweepSave("s1")
    \/ SweepSaveFails("s1")
    \/ \E ph \in PhoneInputs : SubmitPhone("p1", "r1", ph)
    \/ SubSavePhone("p1")
    \/ SubTgCall("p1", TRUE)
    \/ SubTgSave("p1")

SpecLegacy ==
    InitLegacy /\ [][NextLegacy]_vars

(* One client confirming a paid order again and again while the worker     *)
(* retries it, one dispatcher at a time, up to CeilingCalls attempts.      *)
NextTries ==
    \/ TxInit("r1", "valid", "accepted")
    \/ TokensLeft("success", ConfirmTokens) /\ VerifyRead("v1", "r1", "success", ProductPriceKobo)
    \/ VerifySave("v1")
    \/ sweep["s1"].pc = "idle" /\ ConfirmRead("c1", "r1", ConfirmTokens)
    \/ \E o \in RaceOutcomes : CallsLeft("r1", CeilingCalls) /\ ConfirmCapiCall("c1", o)
    \/ ConfirmCapiSave("c1")
    \/ \E d \in BOOLEAN : ConfirmTgCall("c1", d)
    \/ ConfirmTgSave("c1")
    \/ conf["c1"].pc = "idle" /\ SweepFind("s1")
    \/ \E o \in RaceOutcomes : CallsLeft("r1", CeilingCalls) /\ SweepCall("s1", o)
    \/ SweepSave("s1")

SpecTries ==
    Init /\ [][NextTries]_vars

(* The Identity Correlator alone: every request /api/identify can get, and *)
(* the requests the page script makes from every cookie jar.               *)
ClickIds ==
    {NoClick, "clkA", "clkB"}

CookieValues ==
    {Null, Fb(NoDate, "clkA"), Fb(NoDate, "rnd1")}

NextIdentify ==
    \/ \E body \in [fbclid : ClickIds, fbc : CookieValues, fbp : CookieValues],
           cookies \in [fbc : CookieValues, fbp : CookieValues, fbclid : ClickIds] :
          Identify(body, cookies)
    \/ \E fbclid \in ClickIds,
           jar \in [fbc : CookieValues, fbp : CookieValues, fbclid : ClickIds] :
          bootstrapIdentity(fbclid, jar)
    \/ now < PayNow /\ Tick

SpecIdentify ==
    Init /\ [][NextIdentify]_vars

-----------------------------------------------------------------------------
(* Claims *)

(* C1: once an order's persisted capi.sent is true, no confirmation call   *)
(* or retry-worker pass writes it back to false.                           *)
C1_SentNeverCleared ==
    [][\A r \in DOMAIN orders : orders[r].capi.sent => orders'[r].capi.sent]_vars

(* C2 as stated: confirmation calls made one after the other with the same *)
(* valid token leave exactly one attribution API call behind them.         *)
C2_ExactlyOneCall ==
    (last.op = "confirm" /\ last.code = 200) => capiCalls[last.ref] = 1

(* C2 as amended: a confirmation call that reads capi.sent = true makes no *)
(* attribution call; only a call that read capi.sent = false reaches the   *)
(* attribution API.                                                        *)
C2_SkipsWhenSent ==
    \A c \in ConfSlots :
        conf[c].pc = "capi_call" =>
            /\ ~conf[c].doc.capi.sent
            /\ capiAccepted[conf[c].ref] = 0

(* The second call of a sequence found capi.sent = true, answered 200 and  *)
(* the order's single API call is the first call's.                        *)
C2_Witness ==
    /\ last = StepIn("confirm", "r1", 200, "already_sent", [NoInput EXCEPT !.token = 1])
    /\ capiCalls["r1"] = 1
    /\ orders["r1"].capi.sent

(* C3: the attribution API accepts an order's event at most twice.         *)
C3_AtMostOneDuplicate ==
    \A r \in Refs : capiAccepted[r] <= 2

(* C4: the retry worker never attempts an order whose dispatch has already *)
(* failed CapiMaxTries times.                                              *)
FailedBefore(r) ==
    capiCalls[r] - capiAccepted[r] - (IF last.tag = "accepted" THEN 0 ELSE 1)

C4_NoSixthAttempt ==
    last.op = "sweep_capi" => FailedBefore(last.ref) < CapiMaxTries

(* C5: once an order's persisted status is success, no step changes it.    *)
C5_SuccessTerminal ==
    [][\A r \in DOMAIN orders :
          orders[r].status = "success" => orders'[r].status = "success"]_vars

(* C6: once an order's persisted status is failed, it never becomes        *)
(* success (a transition is applied only from initialized).                *)
C6_FailedTerminal ==
    [][\A r \in DOMAIN orders :
          orders[r].status = "failed" => orders'[r].status = "failed"]_vars

(* C7 as stated: a verify or webhook call in which the processor-reported  *)
(* amount differs from the stored amount leaves the order's status as it   *)
(* was.                                                                    *)
C7_MismatchLeavesStatus ==
    [][/\ \A v \in VerSlots :
            (ver[v].pc # "idle" /\ ver'[v].pc = "idle"
                /\ ver[v].amount # orders[ver[v].ref].amount)
            => orders'[ver[v].ref].status = orders[ver[v].ref].status
       /\ \A h \in HookSlots :
            (hook[h].pc # "idle" /\ hook'[h].pc = "idle"
                /\ hook[h].amount # orders[hook[h].ref].amount)
            => orders'[hook[h].ref].status = orders[hook[h].ref].status]_vars

(* C7 as amended: a call whose reported amount differs from the stored     *)
(* amount never writes success: a verify call gets past the amount check   *)
(* with a differing amount only when the processor reports the payment     *)
(* unpaid (and then it writes failed), and a webhook call never does.      *)
C7_NoSuccessOnMismatch ==
    /\ \A v \in VerSlots :
          (ver[v].pc # "idle" /\ ver[v].amount # orders[ver[v].ref].amount)
          => /\ ver[v].report # "success"
             /\ ver[v].pc = "save_failed"
             /\ \A f \in DOMAIN ver[v].upd : ver[v].upd[f] # "success"
    /\ \A h \in HookSlots :
          hook[h].pc # "idle" => hook[h].amount = orders[hook[h].ref].amount

(* The processor reported paid with another amount: 400, still initialized *)
C7_Witness ==
    /\ last = Step("verify", "r1", 400, "amount_mismatch")
    /\ orders["r1"].status = "initialized"
    /\ \A v \in VerSlots : ver[v].pc = "idle"

(* C8: an order's amount is the configured product price from creation on, *)
(* whatever operations have run on it.                                     *)
C8_AmountFixed ==
    \A r \in DOMAIN orders : orders[r].amount = ProductPriceKobo

(* A verified order after an accepted dispatch, both notifications and a   *)
(* collected phone number, the phone request being the last to answer.     *)
C8_Witness ==
    /\ Exists("r1")
    /\ orders["r1"].status = "success"
    /\ orders["r1"].successToken # NoToken
    /\ orders["r1"].capi.sent
    /\ orders["r1"].telegram.orderSent
    /\ orders["r1"].telegram.phoneSent
    /\ orders["r1"].phone # NoPhone
    /\ last = Step("phone", "r1", 200, "received")

(* C9: a webhook delivery whose signature header is not the HMAC of its    *)
(* body under the configured secret is answered 401 and changes no order,  *)
(* whatever the body says.                                                 *)
C9_ForgedRejected ==
    [][(last'.op \in {"webhook", "webhook_read"} /\ last'.input.forged)
       => (last'.code = 401 /\ orders' = orders /\ hook' = hook)]_vars

(* A forged charge.success for an existing initialized order, with the     *)
(* right amount, was answered 401 and the order is still initialized.      *)
C9_Witness ==
    /\ last.op = "webhook" /\ last.code = 401 /\ last.input.forged
    /\ last.input.body = [event |-> "charge.success", ref |-> "r1",
                          amount |-> ProductPriceKobo]
    /\ Exists("r1") /\ orders["r1"].status = "initialized"

(* C10: a correctly signed charge.success for an order that is already     *)
(* success is answered 200 and changes nothing of the order.               *)
C10_SignedReplayNoOp ==
    [][(/\ last'.op \in {"webhook", "webhook_read"}
        /\ ~last'.input.forged
        /\ last'.input.body.event = "charge.success"
        /\ Exists(last'.input.body.ref)
        /\ orders[last'.input.body.ref].status = "success")
       => (last'.code = 200 /\ orders' = orders /\ hook' = hook)]_vars

(* A signed charge.success with the right amount arrived for a success     *)
(* order at a later minute than its verification and was answered 200.     *)
C10_Witness ==
    /\ last.op = "webhook" /\ last.code = 200 /\ last.tag = "already_success"
    /\ last.input.body.amount = ProductPriceKobo
    /\ orders["r1"].status = "success"
    /\ orders["r1"].verifiedAt < now

(* C11: a token a verify response handed out is accepted by every          *)
(* confirmation call made up to its expiry (mint time + TokenTTLMinutes)   *)
(* and answered token-expired by every call made after it, whatever ran on *)
(* the order in between.                                                   *)
C11_TokenLifetime ==
    [][\A i \in issued :
          (/\ last'.op \in {"confirm", "confirm_read", "confirm_step"}
           /\ last'.input.token = i.token
           /\ last'.ref = i.ref)
          => IF now <= i.expiresAt
             THEN last'.code \in {0, 200}
             ELSE last'.tag = "token_expired"]_vars

(* C12: a confirmation call for an existing order with a token that is not *)
(* that order's token is answered 403 invalid-token, starts no dispatch    *)
(* (no attribution call, no notification) and leaves every order as it is. *)
C12_WrongTokenRejected ==
    [][(/\ last'.op \in {"confirm", "confirm_read", "confirm_step"}
        /\ last'.input.token # NoToken
        /\ Exists(last'.ref)
        /\ orders[last'.ref].successToken # last'.input.token)
       => (/\ last'.code = 403 /\ last'.tag = "invalid_token"
           /\ orders' = orders
           /\ conf' = conf
           /\ capiCalls' = capiCalls /\ capiAccepted' = capiAccepted
           /\ tgOrderMsgs' = tgOrderMsgs /\ tgPhoneMsgs' = tgPhoneMsgs)]_vars

(* Order r1, paid and holding its own token, was asked for with the valid  *)
(* token of the paid order r2 and answered invalid-token.                  *)
C12_Witness ==
    /\ last.op = "confirm" /\ last.tag = "invalid_token" /\ last.ref = "r1"
    /\ Exists("r2")
    /\ orders["r2"].successToken = last.input.token
    /\ orders["r2"].status = "success"
    /\ orders["r1"].status = "success"
    /\ orders["r1"].successToken # NoToken
    /\ capiCalls["r1"] = 0 /\ tgOrderMsgs["r1"] = 0

(* C13 as stated: a confirmation call for an existing order whose status   *)
(* is not success is answered 409 not-yet-paid.                            *)
C13_NotSuccessIs409 ==
    [][(/\ last'.op \in {"confirm", "confirm_read", "confirm_step"}
        /\ last'.input.token # NoToken
        /\ Exists(last'.ref)
        /\ orders[last'.ref].status # "success")
       => last'.code = 409]_vars

(* C13 as amended: the token checks come before the payment-state check.   *)
(* A call for an existing order is answered 403 invalid-token exactly when *)
(* the token is not the order's, 403 token-expired exactly when it is the  *)
(* order's and past its expiry, and 409 not-yet-paid exactly when it is    *)
(* the order's, not expired, and the status is not success.                *)
C13_GateOutcomes ==
    [][(/\ last'.op \in {"confirm", "confirm_read", "confirm_step"}
        /\ last'.input.token # NoToken
        /\ Exists(last'.ref))
       => LET doc == orders[last'.ref]
              mismatch == doc.successToken # last'.input.token
              expired == doc.tokenExpiresAt # NoDate /\ now > doc.tokenExpiresAt
          IN  /\ (last'.tag = "invalid_token") = mismatch
              /\ (last'.tag = "token_expired") = (~mismatch /\ expired)
              /\ (last'.tag = "not_paid")
                    = (~mismatch /\ ~expired /\ doc.status # "success")
              /\ last'.tag \in {"invalid_token", "token_expired"} => last'.code = 403
              /\ last'.tag = "not_paid" => last'.code = 409
              /\ last'.code \in {403, 409}
                    => last'.tag \in {"invalid_token", "token_expired", "not_paid"}]_vars

(* An order that is no longer success was asked for with its own token,    *)
(* inside the token's life, and answered 409.                              *)
C13_Witness ==
    /\ last.op = "confirm" /\ last.code = 409 /\ last.tag = "not_paid"
    /\ orders[last.ref].status = "failed"
    /\ orders[last.ref].successToken = last.input.token
    /\ now <= orders[last.ref].tokenExpiresAt

(* C14: the confirmation endpoint answers 200 with the delivery links only *)
(* if, when it read the order, the order existed, the presented token was  *)
(* the order's successToken, the token was not past tokenExpiresAt and the *)
(* status was success.  A call gets past its read only under that          *)
(* condition, and every 200 is the answer of a call that got past it.      *)
GatePassed(r, token) ==
    /\ Exists(r)
    /\ token # NoToken
    /\ orders[r].successToken = token
    /\ now <= orders[r].tokenExpiresAt
    /\ orders[r].status = "success"

C14_LinksOnlyAfterGate ==
    [][/\ \A c \in ConfSlots :
            (conf[c].pc = "idle" /\ conf'[c].pc # "idle")
            => (last'.ref = conf'[c].ref /\ GatePassed(conf'[c].ref, last'.input.token))
       /\ (last'.op = "confirm" /\ last'.code = 200)
            => \/ GatePassed(last'.ref, last'.input.token)
               \/ \E c \in ConfSlots :
                     conf[c].pc # "idle" /\ conf[c].ref = last'.ref /\ conf'[c].pc = "idle"]_vars

(* A call read the order inside the token's life and answered 200 after    *)
(* the token had expired.                                                  *)
C14_Witness ==
    /\ last.op = "confirm" /\ last.code = 200
    /\ orders[last.ref].successToken # NoToken
    /\ now > orders[last.ref].tokenExpiresAt

(* C15: a confirmation call that got past the gate answers 200 whatever    *)
(* the attribution and notification APIs do: at each of its steps it can   *)
(* go on under every outcome of the call it is waiting for, and when it    *)
(* ends it ends with 200; a failed dispatch shows only in the order.       *)
C15_DispatchNeverFailsConfirm ==
    /\ [](\A c \in ConfSlots :
            /\ conf[c].pc \in {"idle", "capi_call", "capi_save", "tg_call", "tg_save"}
            /\ conf[c].pc = "capi_call"
                  => \A o \in CapiOutcomes : ENABLED ConfirmCapiCall(c, o)
            /\ conf[c].pc = "capi_save" => ENABLED ConfirmCapiSave(c)
            /\ conf[c].pc = "tg_call"
                  => \A d \in BOOLEAN : ENABLED ConfirmTgCall(c, d)
            /\ conf[c].pc = "tg_save" => ENABLED ConfirmTgSave(c))
    /\ [][\A c \in ConfSlots :
            (conf[c].pc # "idle" /\ conf'[c].pc = "idle")
            => (last'.op = "confirm" /\ last'.code = 200 /\ last'.ref = conf[c].ref)]_vars

(* The attribution call timed out and the notification was not delivered: *)
(* the call answered 200 and the failure is on the order.                  *)
C15_Witness ==
    /\ last.op = "confirm" /\ last.code = 200 /\ last.tag = "capi_unsent"
    /\ orders[last.ref].capi = [sent |-> FALSE, tries |-> 1, response |-> "none",
                                error |-> "timeout"]
    /\ ~orders[last.ref].telegram.orderSent
    /\ tgOrderMsgs[last.ref] = 0

(* C16: under a fair retry worker every order that is success eventually   *)
(* has capi.sent = true or capi.tries >= CapiMaxTries, and has capi.sent = *)
(* true once the API has accepted one of its first CapiMaxTries attempts.  *)
C16_EventualDelivery ==
    \A r \in Refs :
        /\ [](Exists(r) /\ orders[r].status = "success"
              => <>(Exists(r)
                    /\ (orders[r].capi.sent \/ orders[r].capi.tries >= CapiMaxTries)))
        /\ []((last.op = "sweep_capi" /\ last.tag = "accepted" /\ last.ref = r
                /\ capiCalls[r] <= CapiMaxTries)
              => <>(Exists(r) /\ orders[r].capi.sent))

(* C17: every order that becomes success eventually has its order-placed   *)
(* notification delivered (telegram.orderSent = true), the notification    *)
(* API accepting every message from some time on.                          *)
C17_EventualNotification ==
    \A r \in Refs :
        [](Exists(r) /\ orders[r].status = "success"
           => <>(Exists(r) /\ orders[r].telegram.orderSent))

(* C18: Telegram delivers at most one order-placed message per order.      *)
C18_OrderNotifiedOnce ==
    \A r \in Refs : tgOrderMsgs[r] <= 1

(* C19: once an order's telegram.phoneSent is true it stays true, and      *)
(* Telegram delivers at most one phone message per order when the phone    *)
(* requests come one after the other.                                      *)
C19_PhoneNotifiedOnce ==
    /\ [][\A r \in DOMAIN orders :
            orders[r].telegram.phoneSent => orders'[r].telegram.phoneSent]_vars
    /\ [](\A r \in Refs : tgPhoneMsgs[r] <= 1)

(* C20: whenever no dispatch attempt is in flight, an order's capi.tries   *)
(* is the number of attribution calls made for it.                         *)
C20_TriesCountsAttempts ==
    (/\ \A c \in ConfSlots : conf[c].pc \notin {"capi_call", "capi_save"}
     /\ \A s \in SweepSlots : sweep[s].pc = "idle")
    => \A r \in DOMAIN orders : orders[r].capi.tries = capiCalls[r]

(* C21: once an unsent order's stored capi.tries has reached CapiMaxTries  *)
(* it never drops below it again, so no later pass of the retry worker     *)
(* selects the order.                                                      *)
C21_CeilingPermanent ==
    [][\A r \in DOMAIN orders :
          (~orders[r].capi.sent /\ orders[r].capi.tries >= CapiMaxTries)
              => /\ orders'[r].capi.tries >= CapiMaxTries
                 /\ ~SweepMatches(orders'[r])]_vars

C22_WitnessBoth ==
    /\ sweep["s1"].pc = "call"
    /\ Len(sweep["s1"].unsent) = 2

(* C23: in the confirmation endpoint and in the retry worker alike, a 200  *)
(* answer of the attribution API with events_received = 0 or a non-empty   *)
(* messages list is a failed attempt: the record the attempt writes has    *)
(* sent = false, one more try and the rejection as its error, and that is  *)
(* the record its save stores.                                             *)
C23_RejectionIsFailure ==
    [][/\ \A c \in ConfSlots :
            /\ (conf[c].pc = "capi_call" /\ conf'[c].pc = "capi_save"
                    /\ last'.tag \in {"zero_events", "messages"})
                  => conf'[c].doc.capi =
                        [sent |-> FALSE, tries |-> conf[c].doc.capi.tries + 1,
                         response |-> "none", error |-> "rejected"]
            /\ (conf[c].pc = "capi_save" /\ conf'[c].pc # "capi_save"
                    /\ conf[c].doc.capi.error = "rejected")
                  => /\ ~orders'[conf[c].ref].capi.sent
                     /\ orders'[conf[c].ref].capi.error = "rejected"
       /\ \A s \in SweepSlots :
            /\ (sweep[s].pc = "call" /\ sweep'[s].pc = "save"
                    /\ last'.tag \in {"zero_events", "messages"})
                  => sweep'[s].unsent[1].capi =
                        [sent |-> FALSE, tries |-> sweep[s].unsent[1].capi.tries + 1,
                         response |-> "none", error |-> "rejected"]
            /\ (sweep[s].pc = "save" /\ sweep'[s] # sweep[s]
                    /\ sweep[s].unsent[1].capi.error = "rejected")
                  => /\ ~orders'[sweep[s].unsent[1].reference].capi.sent
                     /\ orders'[sweep[s].unsent[1].reference].capi.error = "rejected"]_vars

(* A confirmation call and then a pass of the worker were both answered    *)
(* with a rejection, and both attempts are on the order.                   *)
C23_Witness ==
    /\ last = Step("sweep_save", "r1", 0, "capi_unsent")
    /\ orders["r1"].capi = [sent |-> FALSE, tries |-> 2, response |-> "none",
                            error |-> "rejected"]
    /\ capiCalls["r1"] = 2
    /\ capiAccepted["r1"] = 0

(* C24: every attribution attempt is stored before its caller goes on or   *)
(* returns.  The call leaves the handler with the record of the attempt    *)
(* (accepted: sent, one more try than the copy it read, the response, no   *)
(* error; otherwise: not sent, one more try, the error) and the handler's  *)
(* next step is the save that stores exactly that record.                  *)
C24_AttemptPersisted ==
    [][/\ \A c \in ConfSlots :
            /\ (conf[c].pc = "capi_call" /\ conf'[c] # conf[c])
                  => /\ conf'[c].pc = "capi_save"
                     /\ conf'[c].doc.capi.tries = conf[c].doc.capi.tries + 1
                     /\ IF last'.tag = "accepted"
                        THEN /\ conf'[c].doc.capi.sent
                             /\ conf'[c].doc.capi.response = "data"
                             /\ conf'[c].doc.capi.error = "none"
                        ELSE /\ ~conf'[c].doc.capi.sent
                             /\ conf'[c].doc.capi.error # "none"
            /\ (conf[c].pc = "capi_save" /\ conf'[c] # conf[c])
                  => orders'[conf[c].ref].capi = conf[c].doc.capi
       /\ \A s \in SweepSlots :
            /\ (sweep[s].pc = "call" /\ sweep'[s] # sweep[s])
                  => /\ sweep'[s].pc = "save"
                     /\ sweep'[s].unsent[1].capi.tries = sweep[s].unsent[1].capi.tries + 1
                     /\ IF last'.tag = "accepted"
                        THEN /\ sweep'[s].unsent[1].capi.sent
                             /\ sweep'[s].unsent[1].capi.response = "data"
                             /\ sweep'[s].unsent[1].capi.error = "none"
                        ELSE /\ ~sweep'[s].unsent[1].capi.sent
                             /\ sweep'[s].unsent[1].capi.error # "none"
            /\ (sweep[s].pc = "save" /\ sweep'[s] # sweep[s])
                  => orders'[sweep[s].unsent[1].reference].capi = sweep[s].unsent[1].capi]_vars

(* A pass of the worker stored an accepted attempt after the confirmation  *)
(* call had stored a failed one.                                           *)
C24_Witness ==
    /\ last = Step("sweep_save", "r1", 0, "capi_sent")
    /\ orders["r1"].capi = [sent |-> TRUE, tries |-> 2, response |-> "data",
                            error |-> "none"]
    /\ capiCalls["r1"] = 2
    /\ capiAccepted["r1"] = 1

(* C25: /api/tx/init creates an Order only after the processor accepted    *)
(* the transaction: with a missing or malformed email, a rejection by the  *)
(* processor or a failed call it answers 400 or 500 and the collection is  *)
(* as before; and an order appears only by an initialization with a valid  *)
(* email that the processor accepted.                                      *)
C25_CreateAfterAccept ==
    [][/\ (last'.op = "init"
             /\ (last'.input.email # "valid" \/ last'.input.reply # "accepted"))
            => (orders' = orders /\ last'.code \in {400, 500})
       /\ DOMAIN orders' # DOMAIN orders
            => /\ last'.op = "init" /\ last'.code = 200
               /\ last'.input.email = "valid" /\ last'.input.reply = "accepted"
               /\ DOMAIN orders' = DOMAIN orders \cup {last'.ref}]_vars

(* The processor rejected an initialization with a valid email, and there  *)
(* is no order.                                                            *)
C25_Witness ==
    /\ last.op = "init"
    /\ last.input.email = "valid"
    /\ last.input.reply = "rejected"
    /\ orders = [r \in {} |-> NoDoc]

(* C26: there is one Order per reference and it keeps it: the document     *)
(* stored under a reference carries that reference, an initialization that *)
(* draws the reference of an existing order fails and leaves the           *)
(* collection as it was, and no step removes an order or changes its       *)
(* reference.                                                              *)
C26_ReferenceUnique ==
    /\ [](\A r \in DOMAIN orders : orders[r].reference = r)
    /\ [][/\ \A r \in DOMAIN orders :
                 r \in DOMAIN orders' /\ orders'[r].reference = orders[r].reference
           /\ (last'.op = "init" /\ last'.ref \in DOMAIN orders)
                 => (orders' = orders /\ last'.code \in {400, 500})]_vars

(* An initialization the processor accepted drew the reference of an order *)
(* that is already paid; it was answered 500 and the order is as it was.   *)
C26_Witness ==
    /\ last.op = "init" /\ last.code = 500
    /\ last.input.email = "valid" /\ last.input.reply = "accepted"
    /\ Exists(last.ref)
    /\ orders[last.ref].status = "success"
    /\ orders[last.ref].successToken # NoToken

(* C27: a verify call that read the order as success already, with the     *)
(* processor reporting it paid with the stored amount, leaves status,      *)
(* verifiedAt, successToken and tokenExpiresAt of the order as they were.  *)
C27_VerifyIdempotent ==
    [][\A v \in VerSlots :
          (ver[v].pc = "save_paid" /\ ver'[v].pc = "idle"
              /\ "status" \notin DOMAIN ver[v].upd)
          => /\ orders'[ver[v].ref].status = orders[ver[v].ref].status
             /\ orders'[ver[v].ref].verifiedAt = orders[ver[v].ref].verifiedAt
             /\ orders'[ver[v].ref].successToken = orders[ver[v].ref].successToken
             /\ orders'[ver[v].ref].tokenExpiresAt = orders[ver[v].ref].tokenExpiresAt]_vars

(* C28: the webhook never mints or changes an access token.  No step of a  *)
(* webhook call changes successToken or tokenExpiresAt of any order, an    *)
(* order is created without a token, and the only step that changes either *)
(* field is the save of a verify call that found the payment paid.         *)
C28_OnlyVerifyMints ==
    [][/\ \A r \in DOMAIN orders :
            (\/ orders'[r].successToken # orders[r].successToken
             \/ orders'[r].tokenExpiresAt # orders[r].tokenExpiresAt)
            => last' = Step("verify", r, 200, "verified")
       /\ last'.op \in {"webhook", "webhook_read", "webhook_saved"}
            => \A r \in DOMAIN orders :
                  /\ orders'[r].successToken = orders[r].successToken
                  /\ orders'[r].tokenExpiresAt = orders[r].tokenExpiresAt
       /\ \A r \in DOMAIN orders' \ DOMAIN orders :
            /\ orders'[r].successToken = NoToken
            /\ orders'[r].tokenExpiresAt = NoDate]_vars

(* The webhook confirmed an order that a verify call had given a token     *)
(* while the webhook call was under way, and the token is still there.     *)
C28_Witness ==
    /\ last = Step("webhook_saved", "r1", 200, "confirmed")
    /\ orders["r1"].status = "success"
    /\ orders["r1"].successToken # NoToken
    /\ orders["r1"].verifiedAt > orders["r1"].tokenExpiresAt - TokenTTLMinutes

(* C30: every payload sent to the attribution API, by a confirmation call  *)
(* or by the retry worker, on the first attempt and on every later one,    *)
(* carries as event_id the reference of the order it is sent for.          *)
C30_EventIdIsReference ==
    [][/\ capiCalls' # capiCalls => last'.op \in {"confirm_capi", "sweep_capi"}
       /\ last'.op \in {"confirm_capi", "sweep_capi"}
            => /\ capiCalls' = Bump(capiCalls, last'.ref)
               /\ Exists(last'.ref)
               /\ last'.input.payload.event_id = orders[last'.ref].reference]_vars

(* The third attempt for r1, made by the worker after a confirmation call  *)
(* had made one, went out with event_id r1.                                *)
C30_Witness ==
    /\ last.op = "sweep_capi"
    /\ last.input.payload = [event_name |-> "Purchase", event_id |-> "r1"]
    /\ capiCalls["r1"] = 3
    /\ conf["c1"].pc = "tg_call"

(* C29: a request during which the store throws is answered with a 5xx,    *)
(* and none of the saves the request made before the failure remains on    *)
(* the order.                                                              *)
C29_StoreFailureIs5xx ==
    [][last'.tag = "store_error"
          => /\ last'.code \in 500..599
             /\ \A c \in ConfSlots :
                   (conf[c].pc # "idle" /\ conf'[c].pc = "idle")
                   => ~(conf[c].tried /\ orders'[conf[c].ref].capi = conf[c].doc.capi)]_vars

(* The second half of C29 alone, whatever the answer: a confirmation call  *)
(* that ends on a store failure has left no save of its own on the order.  *)
C29_NoPartialMutation ==
    [][\A c \in ConfSlots :
          (last'.tag = "store_error" /\ conf[c].pc # "idle" /\ conf'[c].pc = "idle")
          => ~(conf[c].tried /\ orders'[conf[c].ref].capi = conf[c].doc.capi)]_vars

(* C31: a request to /api/identify that carries a _fbc (or _fbp) cookie    *)
(* never gets that cookie replaced by a synthesized value: the value the   *)
(* response carries and sets is the cookie's, or the one the body gave.    *)
C31_CookieBeforeSynthesis ==
    [][last'.op = "identify"
          => LET i == last'.input IN
             /\ i.cookies.fbc # Null
                   => (i.fbc = i.cookies.fbc \/ (i.body.fbc # Null /\ i.fbc = i.body.fbc))
             /\ i.cookies.fbp # Null
                   => (i.fbp = i.cookies.fbp \/ (i.body.fbp # Null /\ i.fbp = i.body.fbp))]_vars

(* The same for the requests the page script makes, which always posts the *)
(* cookie it has as the body's fbc and fbp.                                *)
C31_PageKeepsCookies ==
    [][(last'.op = "identify" /\ last'.tag = "page")
          => LET i == last'.input IN
             /\ i.fbc = i.cookies.fbc
             /\ i.fbp = i.cookies.fbp]_vars

(* C32: a confirmation call or worker pass holding a copy of an order read *)
(* with neither an email nor a phone makes no attribution call for it: the *)
(* construction of the payload fails, the attempt is recorded as failed    *)
(* and the count of calls the API received stays as it was.                *)
C32_NoIdentityNoCall ==
    [][/\ \A c \in ConfSlots :
            /\ (conf[c].pc = "idle" /\ conf'[c].pc # "idle")
                  => (conf'[c].doc.identified
                         <=> (orders[conf'[c].ref].email # NoEmail
                                 \/ orders[conf'[c].ref].phone # NoPhone))
            /\ (conf[c].pc = "capi_call" /\ conf'[c] # conf[c] /\ ~conf[c].doc.identified)
                  => /\ capiCalls' = capiCalls
                     /\ last'.op = "confirm_build"
                     /\ ~conf'[c].doc.capi.sent
                     /\ conf'[c].doc.capi.error = "no_identity"
       /\ \A s \in SweepSlots :
            /\ (sweep[s].pc = "idle" /\ sweep'[s].pc # "idle")
                  => \A i \in 1..Len(sweep'[s].unsent) :
                        LET d == sweep'[s].unsent[i] IN
                        d.identified <=> (orders[d.reference].email # NoEmail
                                             \/ orders[d.reference].phone # NoPhone)
            /\ (sweep[s].pc = "call" /\ sweep'[s] # sweep[s]
                    /\ ~sweep[s].unsent[1].identified)
                  => /\ capiCalls' = capiCalls
                     /\ last'.op = "sweep_build"
                     /\ ~sweep'[s].unsent[1].capi.sent
                     /\ sweep'[s].unsent[1].capi.error = "no_identity"]_vars

(* The order has neither email nor phone; a confirmation call and then a   *)
(* pass of the worker each recorded a failed attempt, and the API was      *)
(* never called.                                                           *)
C32_Witness ==
    /\ orders["r1"].email = NoEmail
    /\ orders["r1"].phone = NoPhone
    /\ orders["r1"].capi.tries = 2
    /\ orders["r1"].capi.error = "no_identity"
    /\ capiCalls["r1"] = 0
    /\ last = Step("sweep_save", "r1", 0, "capi_unsent")

(* C33: the attempts of the confirmation endpoint and of the retry worker  *)
(* together never take an order's capi.tries above CapiMaxTries.           *)
C33_TriesBounded ==
    \A r \in DOMAIN orders : orders[r].capi.tries <= CapiMaxTries

-----------------------------------------------------------------------------
(* Every handler on one order whose payment may succeed or be abandoned,    *)
(* with one confirmation call, worker pass or phone submission at a time   *)
(* and tx/verify and the webhook running alongside it.                     *)

OneDispatcher ==
    /\ \A c \in ConfSlots : conf[c].pc = "idle"
    /\ \A w \in SweepSlots : sweep[w].pc = "idle"
    /\ \A p \in SubSlots : sub[p].pc = "idle"

NextOrigin ==
    \/ TxInit("r1", "valid", "accepted")
    \/ \E p \in {"success", "abandoned"} :
          /\ TokensLeft(p, MaxTokens)
          /\ VerifyRead("v1", "r1", p, ProductPriceKobo)
    \/ VerifySave("v1")
    \/ \E b \in [event : {"charge.success"}, ref : {"r1"}, amount : {ProductPriceKobo}] :
          HookRecv("h1", Hmac(WebhookSecret, b), b)
    \/ HookSave("h1")
    \/ \E t \in 1..(MaxTokens + 1) : OneDispatcher /\ ConfirmRead("c1", "r1", t)
    \/ \E o \in RaceOutcomes : CallsLeft("r1", OriginCalls) /\ ConfirmCapiCall("c1", o)
    \/ ConfirmCapiSave("c1")
    \/ \E d \in BOOLEAN : ConfirmTgCall("c1", d)
    \/ ConfirmTgSave("c1")
    \/ OneDispatcher /\ SweepFind("s1")
    \/ \E o \in RaceOutcomes : CallsLeft("r1", OriginCalls) /\ SweepCall("s1", o)
    \/ SweepSave("s1")
    \/ OneDispatcher /\ SubmitPhone("p1", "r1", <<"0", "8", "0", "3", "1">>)
    \/ SubSavePhone("p1")
    \/ \E d \in BOOLEAN : SubTgCall("p1", d)
    \/ SubTgSave("p1")

SpecOrigin ==
    Init /\ [][NextOrigin]_vars

(* C34: a confirmation call, a sweeper pass and a phone submission go past  *)
(* their first read only for an order the store holds with status success;  *)
(* every attribution call and every notification for an order is a step of  *)
(* such a request; verifiedAt is set exactly by the writes that make an     *)
(* order success and is never cleared, so an order that has never been      *)
(* success has verifiedAt unset, and such an order has no attribution call  *)
(* and no notification to its name.                                         *)
C34_ReadAsSuccess ==
    /\ \A c \in ConfSlots :
         conf[c].pc = "idle" /\ conf'[c].pc # "idle"
            => Exists(conf'[c].ref) /\ orders[conf'[c].ref].status = "success"
    /\ \A s \in SweepSlots :
         sweep[s].pc = "idle" /\ sweep'[s].pc # "idle"
            => \A i \in 1..Len(sweep'[s].unsent) :
                  /\ Exists(sweep'[s].unsent[i].reference)
                  /\ orders[sweep'[s].unsent[i].reference].status = "success"
    /\ \A p \in SubSlots :
         sub[p].pc = "idle" /\ sub'[p].pc # "idle"
            => Exists(sub'[p].ref) /\ orders[sub'[p].ref].status = "success"

C34_SentByReader ==
    \A r \in Refs :
       /\ capiCalls'[r] # capiCalls[r]
            => \/ \E c \in ConfSlots : conf[c].pc = "capi_call" /\ conf[c].ref = r
               \/ \E s \in SweepSlots :
                     sweep[s].pc = "call" /\ Head(sweep[s].unsent).reference = r
       /\ tgOrderMsgs'[r] # tgOrderMsgs[r]
            => \E c \in ConfSlots : conf[c].pc = "tg_call" /\ conf[c].ref = r
       /\ tgPhoneMsgs'[r] # tgPhoneMsgs[r]
            => \E p \in SubSlots : sub[p].pc = "tg_call" /\ sub[p].ref = r

C34_VerifiedAtTracksSuccess ==
    \A r \in DOMAIN orders :
       /\ orders'[r].status = "success" => orders'[r].verifiedAt # NoDate
       /\ orders[r].verifiedAt # NoDate => orders'[r].verifiedAt # NoDate
       /\ orders[r].verifiedAt = NoDate /\ orders'[r].verifiedAt # NoDate
            => orders'[r].status = "success"

C34_NeverSuccessUntouched ==
    \A r \in Refs :
       (~Exists(r) \/ orders[r].verifiedAt = NoDate)
          => capiCalls[r] = 0 /\ tgOrderMsgs[r] = 0 /\ tgPhoneMsgs[r] = 0

C34_OnlyAfterSuccess ==
    /\ [][C34_ReadAsSuccess]_vars
    /\ [][C34_SentByReader]_vars
    /\ [][C34_VerifiedAtTracksSuccess]_vars
    /\ []C34_NeverSuccessUntouched

(* C34 witness: an order that was success and is failed again has had an    *)
(* attribution call and both notifications.                                 *)
C34_Witness ==
    /\ Exists("r1")
    /\ orders["r1"].status = "failed"
    /\ capiCalls["r1"] > 0
    /\ tgOrderMsgs["r1"] > 0
    /\ tgPhoneMsgs["r1"] > 0

-----------------------------------------------------------------------------
(* One order verified again and again while the clock runs, and             *)
(* confirmation calls presenting any of the tokens handed out.              *)

NextReissue ==
    \/ TxInit("r1", "valid", "accepted")
    \/ /\ TokensLeft("success", ReissueTokens)
       /\ VerifyRead("v1", "r1", "success", ProductPriceKobo)
    \/ VerifySave("v1")
    \/ \E t \in 1..ReissueTokens : ConfirmRead("c1", "r1", t)
    \/ ConfirmCapiCall("c1", "accepted")
    \/ ConfirmCapiSave("c1")
    \/ ConfirmTgCall("c1", TRUE)
    \/ ConfirmTgSave("c1")
    \/ issued # {} /\ now < ReissueNow /\ Tick

SpecReissue ==
    Init /\ [][NextReissue]_vars

(* C35: a verify call that answers with a token has stored that token, a    *)
(* token never handed out before, with an expiry of its own; a              *)
(* confirmation call that presents a token handed out for the order which   *)
(* is not the stored one is answered 403 invalid token, whatever the clock  *)
(* says, and starts nothing; a confirmation call gets past the token check  *)
(* only with the stored token, so no two tokens are accepted at once.       *)
C35_VerifyReplaces ==
    last'.op = "verify" /\ last'.tag = "verified"
       => /\ orders'[last'.ref].successToken # NoToken
          /\ orders'[last'.ref].successToken \notin {i.token : i \in issued}
          /\ orders'[last'.ref].successToken # orders[last'.ref].successToken
          /\ orders'[last'.ref].tokenExpiresAt # NoDate
          /\ \E i \in issued' :
                /\ i.ref = last'.ref
                /\ i.token = orders'[last'.ref].successToken
                /\ i.expiresAt = orders'[last'.ref].tokenExpiresAt

C35_ReplacedIsInvalid ==
    \A i \in issued :
       (/\ last'.op \in {"confirm", "confirm_read", "confirm_step"}
        /\ last'.ref = i.ref
        /\ last'.input.token = i.token
        /\ orders[i.ref].successToken # i.token)
          => last'.code = 403 /\ last'.tag = "invalid_token" /\ conf' = conf

C35_PastCheckIsStored ==
    (/\ last'.op \in {"confirm", "confirm_read", "confirm_step"}
     /\ last'.input.token # NoToken
     /\ Exists(last'.ref)
     /\ last'.tag # "invalid_token")
       => last'.input.token = orders[last'.ref].successToken

C35_OneTokenAccepted ==
    /\ [][C35_VerifyReplaces]_vars
    /\ [][C35_ReplacedIsInvalid]_vars
    /\ [][C35_PastCheckIsStored]_vars

(* C35 witness: the first token, presented within its own fifteen minutes   *)
(* after a second verify, has just been refused as invalid.                 *)
C35_Witness ==
    /\ last.op = "confirm"
    /\ last.tag = "invalid_token"
    /\ \E i, j \in issued :
          /\ i.ref = last.ref /\ j.ref = last.ref
          /\ i.token = last.input.token
          /\ i.token # j.token
          /\ now <= i.expiresAt
          /\ orders[last.ref].successToken = j.token

(* C36: while an order holds no token (the webhook made it success, no      *)
(* verify call has stored a token yet), a confirmation call that presents   *)
(* a token is answered 403 invalid token and starts nothing, no             *)
(* confirmation call is at work on the order, and every attribution call    *)
(* made for it is a step of the retry worker.                               *)
C36_TokenlessRejected ==
    (/\ last'.op \in {"confirm", "confirm_read", "confirm_step"}
     /\ last'.input.token # NoToken
     /\ Exists(last'.ref)
     /\ orders[last'.ref].successToken = NoToken)
       => /\ last'.code = 403 /\ last'.tag = "invalid_token"
          /\ conf' = conf
          /\ capiCalls' = capiCalls /\ tgOrderMsgs' = tgOrderMsgs

C36_TokenlessSweeperOnly ==
    \A r \in DOMAIN orders :
       orders[r].successToken = NoToken /\ capiCalls'[r] # capiCalls[r]
          => /\ \E s \in SweepSlots :
                   /\ sweep[s].pc = "call" /\ sweep'[s].pc = "save"
                   /\ Head(sweep[s].unsent).reference = r
             /\ conf' = conf

C36_TokenlessNoConfirm ==
    \A c \in ConfSlots :
       conf[c].pc # "idle" => orders[conf[c].ref].successToken # NoToken

C36_WebhookOnlySweeper ==
    /\ [][C36_TokenlessRejected]_vars
    /\ [][C36_TokenlessSweeperOnly]_vars
    /\ []C36_TokenlessNoConfirm

(* C36 witness: the webhook made the order success, the worker's call was   *)
(* accepted, no token exists, and a confirmation call presenting a token    *)
(* has just been refused.                                                   *)
C36_Witness ==
    /\ last.op = "confirm" /\ last.tag = "invalid_token"
    /\ last.input.token # NoToken
    /\ orders[last.ref].status = "success"
    /\ orders[last.ref].successToken = NoToken
    /\ issued = {}
    /\ capiAccepted[last.ref] = 1
    /\ orders[last.ref].capi.sent

-----------------------------------------------------------------------------
(* Two orders; the retry worker with the webhook, tx/verify and             *)
(* submit-phone at work at the same time.                                   *)

NextWorker ==
    \/ \E r \in Refs : TxInit(r, "valid", "accepted")
    \/ \E b \in [event : {"charge.success"}, ref : Refs, amount : {ProductPriceKobo}] :
          HookRecv("h1", Hmac(WebhookSecret, b), b)
    \/ HookSave("h1")
    \/ \E p \in {"success", "abandoned"} :
          TokensLeft(p, MaxTokens) /\ VerifyRead("v1", "r1", p, ProductPriceKobo)
    \/ VerifySave("v1")
    \/ SweepFind("s1")
    \/ \E o \in RaceOutcomes :
          /\ sweep["s1"].pc = "call"
          /\ CallsLeft(Head(sweep["s1"].unsent).reference, MaxCalls)
          /\ SweepCall("s1", o)
    \/ SweepSave("s1")
    \/ SubmitPhone("p1", "r1", <<"0", "8", "0", "3", "1">>)
    \/ SubSavePhone("p1")
    \/ SubTgCall("p1", TRUE)
    \/ SubTgSave("p1")

SpecWorker ==
    Init /\ [][NextWorker]_vars

(* C37: a step of the retry worker leaves the collection with the same      *)
(* orders; of each order it leaves status, amount, successToken,            *)
(* tokenExpiresAt, phone and the telegram record, and every field other     *)
(* than capi, as they are in the store at that moment; the only order it    *)
(* writes is the one of its selection it is working on; it delivers no      *)
(* notification.                                                            *)
C37_SweepOps ==
    {"sweep", "sweep_find", "sweep_capi", "sweep_build", "sweep_save"}

C37_SweepStep ==
    /\ DOMAIN orders' = DOMAIN orders
    /\ \A r \in DOMAIN orders :
         /\ orders'[r].status = orders[r].status
         /\ orders'[r].amount = orders[r].amount
         /\ orders'[r].successToken = orders[r].successToken
         /\ orders'[r].tokenExpiresAt = orders[r].tokenExpiresAt
         /\ orders'[r].phone = orders[r].phone
         /\ orders'[r].telegram = orders[r].telegram
         /\ [orders'[r] EXCEPT !.capi = orders[r].capi] = orders[r]
         /\ orders'[r] # orders[r]
              => \E s \in SweepSlots :
                    sweep[s].pc = "save" /\ Head(sweep[s].unsent).reference = r
    /\ tgOrderMsgs' = tgOrderMsgs
    /\ tgPhoneMsgs' = tgPhoneMsgs

-----------------------------------------------------------------------------
(* One order that tx/verify may make success or failed, confirmation calls  *)
(* on it, and phone submissions for it, for an order that does not exist    *)
(* and without a reference, with a missing, a short and a valid number.     *)

NextPhone ==
    \/ TxInit("r1", "valid", "accepted")
    \/ \E p \in {"success", "abandoned"} :
          TokensLeft(p, MaxTokens) /\ VerifyRead("v1", "r1", p, ProductPriceKobo)
    \/ VerifySave("v1")
    \/ \E t \in 1..MaxTokens : ConfirmRead("c1", "r1", t)
    \/ \E o \in RaceOutcomes : CallsLeft("r1", MaxCalls) /\ ConfirmCapiCall("c1", o)
    \/ ConfirmCapiSave("c1")
    \/ \E d \in BOOLEAN : ConfirmTgCall("c1", d)
    \/ ConfirmTgSave("c1")
    \/ \E r \in Refs \cup {NoRef}, ph \in PhoneInputs : SubmitPhone("p1", r, ph)
    \/ SubSavePhone("p1")
    \/ \E d \in BOOLEAN : SubTgCall("p1", d)
    \/ SubTgSave("p1")

SpecPhone ==
    Init /\ [][NextPhone]_vars

(* C38: a phone submission goes past its read only for an order the store   *)
(* holds with status success and with a trimmed number of at least five     *)
(* characters; otherwise it answers 400 or 404 and nothing changes; a step  *)
(* of a submission that got through writes only the order it read, and of   *)
(* that order only phone and the telegram record: status, amount,           *)
(* successToken, tokenExpiresAt and capi stay as the store holds them.      *)
C38_PhoneOps ==
    {"phone", "phone_read", "phone_step", "phone_tg"}

C38_PhoneGate ==
    \A p \in SubSlots :
       sub[p].pc = "idle"
          => IF /\ Exists(last'.ref)
                /\ orders[last'.ref].status = "success"
                /\ sub'[p].pc # "idle"
             THEN /\ sub'[p].ref = last'.ref
                  /\ Len(sub'[p].doc.phone) >= MinPhoneLength
                  /\ sub'[p].doc.phone = Trim(sub'[p].doc.phone)
                  /\ orders' = orders
             ELSE /\ last'.op = "phone" /\ last'.code \in {400, 404}
                  /\ sub' = sub
                  /\ orders' = orders
                  /\ tgPhoneMsgs' = tgPhoneMsgs

C38_PhoneWrites ==
    /\ DOMAIN orders' = DOMAIN orders
    /\ \A r \in DOMAIN orders :
         /\ orders'[r].status = orders[r].status
         /\ orders'[r].amount = orders[r].amount
         /\ orders'[r].successToken = orders[r].successToken
         /\ orders'[r].tokenExpiresAt = orders[r].tokenExpiresAt
         /\ orders'[r].capi = orders[r].capi
         /\ [orders'[r] EXCEPT !.phone = orders[r].phone,
                               !.telegram = orders[r].telegram] = orders[r]
         /\ orders'[r] # orders[r]
              => \E p \in SubSlots :
                    sub[p].pc \in {"save_phone", "tg_save"} /\ sub[p].ref = r
    /\ last'.code # 200 /\ last'.code # 0 => orders' = orders

-----------------------------------------------------------------------------
(* One order paid through the webhook or tx/verify, or abandoned, with a    *)
(* confirmation call and a worker pass dispatching at the same time and     *)
(* the attribution API answering in every way it can.                       *)

NextRecord ==
    \/ TxInit("r1", "valid", "accepted")
    \/ \E b \in [event : {"charge.success"}, ref : {"r1"}, amount : {ProductPriceKobo}] :
          HookRecv("h1", Hmac(WebhookSecret, b), b)
    \/ HookSave("h1")
    \/ \E p \in {"success", "abandoned"} :
          TokensLeft(p, ConfirmTokens) /\ VerifyRead("v1", "r1", p, ProductPriceKobo)
    \/ VerifySave("v1")
    \/ ConfirmRead("c1", "r1", ConfirmTokens)
    \/ \E o \in CapiOutcomes : CallsLeft("r1", DispatchCalls) /\ ConfirmCapiCall("c1", o)
    \/ ConfirmCapiSave("c1")
    \/ ConfirmTgCall("c1", TRUE)
    \/ ConfirmTgSave("c1")
    \/ SweepFind("s1")
    \/ \E o \in CapiOutcomes : CallsLeft("r1", DispatchCalls) /\ SweepCall("s1", o)
    \/ SweepSave("s1")

SpecRecord ==
    Init /\ [][NextRecord]_vars

(* C39: in every reachable state every stored order satisfies: capi.sent    *)
(* implies capi.tries >= 1 and no capi.error; capi.sent false with          *)
(* capi.tries >= 1 implies a capi.error; status success implies verifiedAt  *)
(* set; successToken set implies tokenExpiresAt set.                        *)
C39_RecordConsistent ==
    \A r \in DOMAIN orders :
       /\ orders[r].capi.sent
            => orders[r].capi.tries >= 1 /\ orders[r].capi.error = "none"
       /\ ~orders[r].capi.sent /\ orders[r].capi.tries >= 1
            => orders[r].capi.error # "none"
       /\ orders[r].status = "success" => orders[r].verifiedAt # NoDate
       /\ orders[r].successToken # NoToken => orders[r].tokenExpiresAt # NoDate

(* C39 witness: the webhook made the order success, a verify call gave it   *)
(* a token, and an accepted attempt was later overwritten by the failed     *)
(* attempt of an overlapping dispatcher.                                    *)
C39_Witness ==
    /\ Exists("r1")
    /\ orders["r1"].status = "success"
    /\ orders["r1"].successToken # NoToken
    /\ capiAccepted["r1"] >= 1
    /\ ~orders["r1"].capi.sent
    /\ orders["r1"].capi.tries >= 1
    /\ orders["r1"].capi.error # "none"
====
